---- MODULE Spec2Model ----
(***************************************************************************)
(* A model of the blacklist synchronisation engine:                        *)
(*   - the SQLite store (database.js): the blacklist table keyed by        *)
(*     (address, token, network) and the sync_status cursor rows;          *)
(*   - the Ethereum backfill pass EthereumSync.syncToken (block windows,   *)
(*     adaptive chunk size, per-window cursor write) and the live          *)
(*     subscription handlers;                                              *)
(*   - the TRON backfill pass TronSync.syncToken (time windows, one cursor *)
(*     write per pass);                                                    *)
(*   - the store alone and getContractEvents alone, for the properties of  *)
(*     these functions.                                                    *)
(* The USDT pass of each driver is modelled, and next to it a second call  *)
(* of the Ethereum driver's syncToken: the USDC pass of the same syncAll   *)
(* or a USDT pass started by the timer.                                    *)
(* Every await of the source is a step boundary; what runs between two     *)
(* awaits that touch shared state is one action.                           *)
(***************************************************************************)
EXTENDS Integers, Sequences, FiniteSets, TLC

VARIABLES
  \* ---- the store (database.js) ----
  blacklist,        \* table blacklist: key <<address, token, network>> -> row
  sync_status,      \* table sync_status: key <<network, token>> -> last_synced_block
  now,              \* Date.now() of the store, in clock ticks
  \* ---- the Ethereum chain and provider ----
  ethHead,          \* web3.eth.getBlockNumber()
  ethLogs,          \* the USDT contract's blacklist logs, ascending by block
  rpcLimit,         \* provider of SpecShrink: the largest block span it serves
  mined,            \* growth steps of the chain so far
  \* ---- EthereumSync instance and the syncToken pass in flight ----
  configChunk,      \* process.env.CHUNK_SIZE
  chunkSize,        \* this.chunkSize
  pc,               \* position of the pass ("off": the driver is not run)
  fromBlock, latestBlock, batchStart, batchEnd, currentBlock, toBlock,
  entries,          \* the window's normalised entries
  idx,              \* next entry of the batch to be written
  batchNow,         \* the `now` the batch took before its loop
  \* ---- Ethereum live subscription ----
  liveOn,           \* liveSync() has subscribed
  liveInFlight,     \* 'data' handlers that have not written yet
  \* ---- observation of the Ethereum driver (history) ----
  windows,          \* <<from, to>> of the successful fetches of this pass
  sizeErrors,       \* size-limit errors handled so far (saturating)
  lastShrink,       \* <<chunk size before, after>> of the last size-limit error
  passCursor0,      \* the cursor this pass read
  runStore0, runCursor0, \* store and cursor when the run (first attempt) began
  interrupted,      \* an attempt of this run was ended by a crash or a throw
  aborts,           \* crashes and throws so far
  failedFrom,       \* window start at which the last attempt stopped, or 0
  failedTo,         \* end of the window whose normalisation threw, or 0
  written,          \* transaction hashes ever handed to stmt.run / db.run
  liveSinceStart,   \* a live handler wrote since this pass began
  \* ---- the TRON chain ----
  tronHead,         \* number of the current block
  tronEvents,       \* the USDT contract's blacklist events, ascending by block
  \* ---- TronSync.syncToken pass in flight ----
  tronPc,           \* position of the pass ("off": the driver is not run)
  tronLastSyncedBlock, currentBlockNumber, currentTimestamp, fromTimestamp,
  tronEntries, tronIdx, tronBatchNow,
  \* ---- observation of the TRON driver (history) ----
  tronWindows,      \* <<start, end>> of the ranges getContractEvents fetched
  tronFetched,      \* transaction ids of the events the pass fetched
  \* ---- observation of the store alone (SpecStore) ----
  lastBatch,        \* the batch given to batchUpsertBlacklistEntries last
  onceStore,        \* the table after that batch was applied once
  reapplied,        \* the same batch has been applied again
  \* ---- getContractEvents alone (SpecRanges) ----
  rangeMin, rangeMax, \* the arguments minBlockTimestamp and maxBlockTimestamp
  rangeResult,      \* the ranges the call fetched, in order
  \* ---- the process: index.js main, or a driver module run directly ----
  entryPoint,       \* the file node was started with
  args,             \* process.argv.slice(2)
  mainPc,           \* position of main / of the module's main block
  cronPc,           \* position of the scheduled callback
  cronRuns,         \* scheduled callbacks begun
  dbOpen,           \* database.close() has not been called
  exitCode,         \* exit code of the process, -1 while it runs
  tronLiveOn,       \* tronSync.liveSync() has been called
  ethPasses,        \* ethereumSync.syncAll() calls of this process
  tronPasses,       \* tronSync.syncAll() calls of this process
  signalled,        \* the process ended in a SIGINT/SIGTERM handler
  \* ---- fetchEventsForRange alone (SpecPages) ----
  pageHeld,         \* number of events the indexer holds for the window
  pagePc,           \* "loop" inside the while (true), "done" after a break
  fingerprint,      \* the local fingerprint: 0 for '', else the token received
  pageEvents,       \* the local events: positions of the events pushed
  requests,         \* the fingerprint of every request issued, in order
  pageLast,         \* length and token of the last response, <<>> before it
  tokenWithheld,    \* a response with more data behind it carried no token
  \* ---- the normaliser alone (SpecNormalize) ----
  normWord,         \* the 32-byte ABI word of an address, "0x" and 64 digits
  normKind,         \* "add" or "remove": the kind of the event emitted
  normDone,         \* tokens whose log of that word has been handled
  normSeen,         \* <<network, token, signature>> of the events handled
  \* ---- the forceFullSync argument of the syncAll call in flight or last made ----
  forceFullSync,    \* of ethereumSync.syncAll
  tronForceFullSync, \* of tronSync.syncAll
  \* ---- TronSync.liveSync ----
  polls,            \* pollForEvents callbacks run
  pollWindows,      \* <<fromTimestamp, currentTimestamp, head block number>> of
                    \* the polls that queried, in order
  \* ---- a second syncToken call of the same EthereumSync instance, in ----
  \* ---- flight next to the first: the USDC pass of the same syncAll,  ----
  \* ---- or a USDT pass the timer started before the last one returned ----
  tokenB,           \* its tokenSymbol, "none" before the first such call
  pcB,              \* its position
  fromBlockB, latestBlockB, batchEndB, currentBlockB, toBlockB,
  entriesB, idxB, batchNowB,
  windowsB,         \* <<from, to>> of its successful fetches
  sizeErrorsB,      \* size-limit errors its fetches met (saturating)
  \* ---- utils/bigint.js alone (SpecBigint) ----
  convArg, convArg2, \* the arguments drawn
  convOut           \* the function applied, whether it threw, what it returned

storeVars == <<blacklist, sync_status, now>>
ethVars == <<ethHead, ethLogs, rpcLimit, mined>>
passVars == <<configChunk, chunkSize, pc, fromBlock, latestBlock, batchStart,
              batchEnd, currentBlock, toBlock, entries, idx, batchNow>>
liveVars == <<liveOn, liveInFlight>>
histVars == <<windows, sizeErrors, lastShrink, passCursor0, runStore0, runCursor0,
              interrupted, aborts, failedFrom, failedTo, written,
              liveSinceStart>>
mainVars == <<entryPoint, args, mainPc, cronPc, cronRuns, dbOpen, exitCode, tronLiveOn,
              ethPasses, tronPasses, signalled>>
normVars == <<normWord, normKind, normDone, normSeen>>
pageVars == <<pageHeld, pagePc, fingerprint, pageEvents, requests, pageLast,
              tokenWithheld>>
tronVars == <<tronHead, tronEvents, tronPc, tronLastSyncedBlock, currentBlockNumber,
              currentTimestamp, fromTimestamp, tronEntries, tronIdx, tronBatchNow,
              tronWindows, tronFetched>>
batchVars == <<lastBatch, onceStore, reapplied>>
rangeVars == <<rangeMin, rangeMax, rangeResult>>
resyncVars == <<forceFullSync, tronForceFullSync>>
pollVars == <<polls, pollWindows>>
otherVars == <<tokenB, pcB, fromBlockB, latestBlockB, batchEndB, currentBlockB, toBlockB,
               entriesB, idxB, batchNowB, windowsB, sizeErrorsB>>
convVars == <<convArg, convArg2, convOut>>
vars == <<storeVars, ethVars, passVars, liveVars, histVars, tronVars, batchVars,
          rangeVars, mainVars, pageVars, normVars, resyncVars, pollVars,
          otherVars, convVars>>

(***************************************************************************)
(* Program constants.                                                      *)
(***************************************************************************)
USDT_DEPLOYMENT_BLOCK == 4634748
USDC_DEPLOYMENT_BLOCK == 6082465
maxBatchSize == 172800
MinChunkSize == 100
DefaultChunkSize == 10000

(***************************************************************************)
(* Bounds of the model.                                                    *)
(***************************************************************************)
MaxMines == 2        \* blocks with a blacklist log mined in one behaviour
MaxSizeErrors == 1   \* size-limit errors a nondeterministic provider raises
MaxClock == 2        \* clock ticks
MaxAborts == 1       \* crashes and thrown errors in one behaviour
MaxCronRuns == 1     \* scheduled callbacks in one behaviour
MaxPolls == 3        \* callbacks of the live poll timer in one behaviour
MantissaBits == 29   \* bits of the significand of a number of the model
MaxHeld == 250       \* events the indexer holds for one window
SeedLen == 2         \* digits of an address that vary in SpecNormalize
MaxBatchLen == 2     \* entries of a batch given to the store alone
MaxTimestamp == 14   \* largest timestamp given to getContractEvents alone

Min(a, b) == IF a < b THEN a ELSE b
Max(a, b) == IF a > b THEN a ELSE b

(***************************************************************************)
(* utils/bigint.js.  A JavaScript value that reaches safeToNumber is kept  *)
(* with its type.  A JavaScript number is a double with a significand of   *)
(* 53 bits and Number.MAX_SAFE_INTEGER is 2^53 - 1, beyond the integers    *)
(* TLC computes with.  The model's doubles have a significand of           *)
(* MantissaBits bits: every integer up to 2^MantissaBits in magnitude is a *)
(* number, and between 2^MantissaBits and 2^(MantissaBits + 1) the even    *)
(* integers are.  Every block number and timestamp of the model is below   *)
(* MAX_SAFE_INTEGER.                                                       *)
(***************************************************************************)
MAX_SAFE_INTEGER == 2^MantissaBits - 1

BigIntOf(n) == [type |-> "bigint", value |-> n]
NumberOf(n) == [type |-> "number", value |-> n]
StringOf(chars) == [type |-> "string", chars |-> chars]

Abs(n) == IF n < 0 THEN 0 - n ELSE n

\* Number(value) of a bigint: the nearest double, ties to the even
\* significand; for magnitudes below 2^(MantissaBits + 1)
ToNumber(n) ==
  IF Abs(n) <= MAX_SAFE_INTEGER + 1 \/ n % 2 = 0 THEN n
  ELSE IF (Abs(n) - 1) % 4 = 0
         THEN IF n < 0 THEN n + 1 ELSE n - 1
         ELSE IF n < 0 THEN n - 1 ELSE n + 1

\* the characters of decimal strings
IsDigit(c) == c \in {"0", "1", "2", "3", "4", "5", "6", "7", "8", "9"}
DigitValue(c) == CASE c = "0" -> 0 [] c = "1" -> 1 [] c = "2" -> 2 [] c = "3" -> 3
                   [] c = "4" -> 4 [] c = "5" -> 5 [] c = "6" -> 6 [] c = "7" -> 7
                   [] c = "8" -> 8 [] c = "9" -> 9

\* parseInt(value, 10): leading white space is skipped, a sign is read, then
\* the longest run of digits; what follows is ignored
RECURSIVE SkipSpaces(_)
SkipSpaces(s) == IF Len(s) > 0 /\ s[1] = " " THEN SkipSpaces(Tail(s)) ELSE s

RECURSIVE DigitPrefix(_)
DigitPrefix(s) ==
  IF Len(s) > 0 /\ IsDigit(s[1]) THEN <<s[1]>> \o DigitPrefix(Tail(s)) ELSE <<>>

RECURSIVE DigitsValue(_)
DigitsValue(d) ==
  IF Len(d) = 0 THEN 0
  ELSE 10 * DigitsValue(SubSeq(d, 1, Len(d) - 1)) + DigitValue(d[Len(d)])

ParseIntParts(s) ==
  LET t == SkipSpaces(s)
      signed == Len(t) > 0 /\ t[1] \in {"-", "+"}
  IN [negative |-> Len(t) > 0 /\ t[1] = "-",
      digits |-> DigitPrefix(IF signed THEN Tail(t) ELSE t)]

\* isNaN(parseInt(value, 10)): no digit was read
parseIntIsNaN(s) == ParseIntParts(s).digits = <<>>

\* parseInt(value, 10) when a digit was read: the double nearest to the
\* integer read
parseInt(s) ==
  LET parts == ParseIntParts(s)
      magnitude == ToNumber(DigitsValue(parts.digits))
  IN IF parts.negative THEN 0 - magnitude ELSE magnitude

\* lines 535-557: the cases in which safeToNumber throws
safeToNumberThrows(v) ==
  CASE v.type = "bigint" -> v.value > MAX_SAFE_INTEGER
    [] v.type = "string" -> parseIntIsNaN(v.chars)
    [] v.type = "number" -> FALSE
    [] OTHER -> TRUE

\* lines 535-557: the number safeToNumber returns when it does not throw
safeToNumber(v) == CASE v.type = "bigint" -> ToNumber(v.value)
                     [] v.type = "string" -> parseInt(v.chars)
                     [] v.type = "number" -> v.value
safeMin(a, b) == Min(safeToNumber(a), safeToNumber(b))
safeMax(a, b) == Max(safeToNumber(a), safeToNumber(b))

(***************************************************************************)
(* Strings that the program cuts, joins or re-cases are sequences of       *)
(* characters.  A raw log carries the hex digits of the address; the       *)
(* normaliser prefixes "0x" and the store keeps toLowerCase() of it.  The  *)
(* passes run with addresses of two digits; SpecNormalize runs with the    *)
(* full 32-byte words.                                                     *)
(***************************************************************************)
HexTails == {<<"A", "B">>, <<"c", "d">>}

\* String.prototype.substring(start), start counted from 0
substring(s, start) == SubSeq(s, start + 1, Len(s))

\* '0x' + t
Prefix0x(t) == <<"0", "x">> \o t

\* String.prototype.toLowerCase on the characters of hex strings
LowerChar(c) == CASE c = "A" -> "a" [] c = "B" -> "b" [] c = "C" -> "c"
                  [] c = "D" -> "d" [] c = "E" -> "e" [] c = "F" -> "f"
                  [] c = "X" -> "x" [] OTHER -> c
toLowerCase(a) == [i \in 1..Len(a) |-> LowerChar(a[i])]

(***************************************************************************)
(* constants.js EVENTS: the topic0 values of the USDT and USDC events.     *)
(***************************************************************************)
EVENTS == [ADDED_BLACKLIST |-> "keccak:AddedBlackList(address)",
           REMOVED_BLACKLIST |-> "keccak:RemovedBlackList(address)",
           BLACKLISTED |-> "keccak:Blacklisted(address)",
           UNBLACKLISTED |-> "keccak:UnBlacklisted(address)"]

(***************************************************************************)
(* A raw USDT log as web3 delivers it.  data is the 32-byte ABI word       *)
(* "0x" + 24 pad digits + 40 address digits, kept as its length and its    *)
(* tail data.substring(26).  blockNumber is a bigint.                      *)
(***************************************************************************)
UsdtLog(b, tail, sig) == [blockNumber |-> BigIntOf(b),
                          transactionHash |-> <<"tx", b>>,
                          topics |-> <<sig>>,
                          data |-> [length |-> 66, tail |-> tail]]

\* processLog lines 28 and 32 (39 for a topic): what the normaliser reads of
\* a hex string, its length and its substring(26)
FieldWholeWord(word) == [length |-> Len(word), tail |-> substring(word, 2)]

FieldOf(word) == [length |-> Len(word), tail |-> substring(word, 26)]

\* the ABI word of a 20-byte address: "0x", 24 pad digits, 40 address digits
PadDigits == [i \in 1..24 |-> "0"]
AbiWord(address40) == <<"0", "x">> \o PadDigits \o address40

\* a USDT log (address in data) and a USDC log (address in topics[1], data
\* empty) as web3 delivers them, from the full strings
RawUsdtLog(b, word, sig) == [blockNumber |-> BigIntOf(b),
                             transactionHash |-> <<"tx", b>>,
                             topics |-> <<sig>>,
                             data |-> FieldOf(word)]

RawUsdcLog(b, word, sig) == [blockNumber |-> BigIntOf(b),
                             transactionHash |-> <<"tx", b>>,
                             topics |-> <<sig, FieldOf(word)>>,
                             data |-> FieldOf(<<"0", "x">>)]

\* a log whose data field is "0x": shorter than the 66 characters of line 28
MalformedLog(b, sig) == [blockNumber |-> BigIntOf(b),
                         transactionHash |-> <<"tx", b>>,
                         topics |-> <<sig>>,
                         data |-> [length |-> 2, tail |-> <<>>]]

\* web3.eth.getBlock(n).timestamp: chain data, 12 s per block
EthBlockTimestamp(b) == BigIntOf(12 * b)

(***************************************************************************)
(* EthereumSync.processLog                                                 *)
(***************************************************************************)
processLogThrows(log, token) ==
  IF token = "USDT"
    THEN log.data.length < 66
    ELSE Len(log.topics) < 2

processLog(log, token) ==
  LET address == IF token = "USDT"
                   THEN Prefix0x(log.data.tail)
                   ELSE Prefix0x(log.topics[2].tail)
      isBlacklisted == ~(log.topics[1] = EVENTS.REMOVED_BLACKLIST
                         \/ log.topics[1] = EVENTS.UNBLACKLISTED)
  IN [address |-> address,
      token |-> token,
      network |-> "ETHEREUM",
      is_blacklisted |-> isBlacklisted,
      block_number |-> safeToNumber(log.blockNumber),
      transaction_hash |-> log.transactionHash,
      timestamp |-> safeToNumber(EthBlockTimestamp(log.blockNumber.value))]

(***************************************************************************)
(* database.js                                                             *)
(***************************************************************************)
\* a write that binds entry.address as it is given
KeyOfAsGiven(entry) == <<entry.address, entry.token, entry.network>>

\* lines 58-60, 89-91: the values bound to the primary key columns
KeyOf(entry) == <<toLowerCase(entry.address), entry.token, entry.network>>

\* Two other conflict clauses SQLite offers, for comparison with the one
\* the statements use: ON CONFLICT DO NOTHING, and an update that also
\* overwrites first_seen.
UpsertRowDoNothing(tbl, entry, t) ==
  LET k == KeyOf(entry)
      row == [is_blacklisted |-> IF entry.is_blacklisted THEN 1 ELSE 0,
              block_number |-> entry.block_number,
              transaction_hash |-> entry.transaction_hash,
              timestamp |-> entry.timestamp,
              first_seen |-> t,
              last_updated |-> t]
  IN IF k \in DOMAIN tbl
       THEN tbl
       ELSE [x \in (DOMAIN tbl) \cup {k} |-> IF x = k THEN row ELSE tbl[x]]

UpsertRowAllColumns(tbl, entry, t) ==
  LET k == KeyOf(entry)
      row == [is_blacklisted |-> IF entry.is_blacklisted THEN 1 ELSE 0,
              block_number |-> entry.block_number,
              transaction_hash |-> entry.transaction_hash,
              timestamp |-> entry.timestamp,
              first_seen |-> t,
              last_updated |-> t]
  IN [x \in (DOMAIN tbl) \cup {k} |-> IF x = k THEN row ELSE tbl[x]]

\* an update clause without last_updated = excluded.last_updated
UpsertRowStaleUpdate(tbl, entry, t) ==
  LET k == KeyOf(entry)
      row == [is_blacklisted |-> IF entry.is_blacklisted THEN 1 ELSE 0,
              block_number |-> entry.block_number,
              transaction_hash |-> entry.transaction_hash,
              timestamp |-> entry.timestamp,
              first_seen |-> IF k \in DOMAIN tbl THEN tbl[k].first_seen ELSE t,
              last_updated |-> IF k \in DOMAIN tbl THEN tbl[k].last_updated ELSE t]
  IN [x \in (DOMAIN tbl) \cup {k} |-> IF x = k THEN row ELSE tbl[x]]

\* one INSERT ... ON CONFLICT(address, token, network) DO UPDATE SET ...
\* of upsertBlacklistEntry / batchUpsertBlacklistEntries, run at time t
UpsertRow(tbl, entry, t) ==
  LET k == KeyOf(entry)
      row == [is_blacklisted |-> IF entry.is_blacklisted THEN 1 ELSE 0,
              block_number |-> entry.block_number,
              transaction_hash |-> entry.transaction_hash,
              timestamp |-> entry.timestamp,
              first_seen |-> IF k \in DOMAIN tbl THEN tbl[k].first_seen ELSE t,
              last_updated |-> t]
  IN [x \in (DOMAIN tbl) \cup {k} |-> IF x = k THEN row ELSE tbl[x]]

\* a single write that binds the address as the entry holds it
upsertBlacklistEntryAsGiven(tbl, entry, t) ==
  LET key == <<entry.address, entry.token, entry.network>>
      inserted == [is_blacklisted |-> IF entry.is_blacklisted THEN 1 ELSE 0,
                   block_number |-> entry.block_number,
                   transaction_hash |-> entry.transaction_hash,
                   timestamp |-> entry.timestamp,
                   first_seen |-> t,
                   last_updated |-> t]
  IN IF key \in DOMAIN tbl
       THEN [tbl EXCEPT ![key] = [inserted EXCEPT !.first_seen = tbl[key].first_seen]]
       ELSE [x \in (DOMAIN tbl) \cup {key} |-> IF x = key THEN inserted ELSE tbl[x]]

\* upsertBlacklistEntry, lines 32-68: the entry's fields are bound (address
\* in lower case, is_blacklisted as 1 or 0, Date.now() twice) and the row is
\* inserted or, on a conflict of the key, updated in the five columns of the
\* SET list
upsertBlacklistEntry(tbl, entry, t) ==
  LET key == <<toLowerCase(entry.address), entry.token, entry.network>>
      inserted == [is_blacklisted |-> IF entry.is_blacklisted THEN 1 ELSE 0,
                   block_number |-> entry.block_number,
                   transaction_hash |-> entry.transaction_hash,
                   timestamp |-> entry.timestamp,
                   first_seen |-> t,
                   last_updated |-> t]
  IN IF key \in DOMAIN tbl
       THEN [tbl EXCEPT ![key] =
               [@ EXCEPT !.is_blacklisted = inserted.is_blacklisted,
                         !.block_number = inserted.block_number,
                         !.transaction_hash = inserted.transaction_hash,
                         !.timestamp = inserted.timestamp,
                         !.last_updated = inserted.last_updated]]
       ELSE [x \in (DOMAIN tbl) \cup {key} |-> IF x = key THEN inserted ELSE tbl[x]]

\* batchUpsertBlacklistEntries: one `now`, then stmt.run per entry in order
RECURSIVE batchUpsertFrom(_, _, _, _)
batchUpsertFrom(tbl, batch, i, t) ==
  IF i > Len(batch) THEN tbl
  ELSE batchUpsertFrom(UpsertRow(tbl, batch[i], t), batch, i + 1, t)

batchUpsertBlacklistEntries(tbl, batch, t) == batchUpsertFrom(tbl, batch, 1, t)

\* clearBlacklistData(network, token): the records of the pair are deleted
clearBlacklistData(tbl, network, token) ==
  [k \in {x \in DOMAIN tbl : ~(x[3] = network /\ x[2] = token)} |-> tbl[k]]

\* getLastSyncedBlock: result?.last_synced_block || 0
getLastSyncedBlock(network, token) ==
  IF <<network, token>> \in DOMAIN sync_status
    THEN sync_status[<<network, token>>]
    ELSE 0

\* getBlacklistStatus(address, token = null, network = null): the rows WHERE
\* address = address.toLowerCase(), narrowed by token and network when given
getBlacklistStatus(tbl, address, token, network) ==
  {<<k, tbl[k]>> : k \in {x \in DOMAIN tbl :
                            /\ x[1] = toLowerCase(address)
                            /\ token # "null" => x[2] = token
                            /\ network # "null" => x[3] = network}}

\* a cursor table keyed by network alone
updateSyncStatusByNetwork(tbl, network, token, blockNumber) ==
  [x \in (DOMAIN tbl) \cup {<<network, token>>} |->
     IF x[1] = network THEN blockNumber ELSE tbl[x]]

\* updateSyncStatus: INSERT ... ON CONFLICT(network, token) DO UPDATE
updateSyncStatus(tbl, network, token, blockNumber) ==
  [x \in (DOMAIN tbl) \cup {<<network, token>>} |->
     IF x = <<network, token>> THEN blockNumber ELSE tbl[x]]

(***************************************************************************)
(* The Ethereum chain.  A configuration pairs a CHUNK_SIZE with the        *)
(* distance of the first head from the deployment block and the jump of    *)
(* the head between two looks at it, so that a pass spans a few windows    *)
(* (and, for the largest, more than one batch of maxBatchSize blocks).     *)
(***************************************************************************)
Configs == {[chunk |-> 50, first |-> 120, step |-> 60],
            [chunk |-> 250, first |-> 260, step |-> 130],
            [chunk |-> DefaultChunkSize, first |-> 12000, step |-> 6000],
            [chunk |-> 100000, first |-> maxBatchSize, step |-> 30000]}

StepOf(c) == (CHOOSE cfg \in Configs : cfg.chunk = c).step

Signatures == {EVENTS.ADDED_BLACKLIST, EVENTS.REMOVED_BLACKLIST}

\* a syncToken call has not returned yet
InFlight == pc \in {"head", "fetch", "asked", "upsert", "cursor"}

\* the chain grows by n blocks; the new head block may carry one log, which
\* a subscription in place delivers to its 'data' handler
Mine ==
  /\ pc # "off"
  /\ mined < MaxMines
  /\ \E n \in {1, StepOf(configChunk)} :
       /\ ethHead' = ethHead + n
       /\ \/ ethLogs' = ethLogs
          \/ \E tail \in HexTails, sig \in Signatures :
               ethLogs' = Append(ethLogs, UsdtLog(ethHead + n, tail, sig))
  /\ mined' = mined + 1
  /\ liveInFlight' = IF liveOn /\ ethLogs' # ethLogs
                       THEN liveInFlight \cup {ethLogs'[Len(ethLogs')]}
                       ELSE liveInFlight
  /\ UNCHANGED <<storeVars, rpcLimit, passVars, liveOn, histVars, tronVars,
                 batchVars, rangeVars, mainVars, pageVars, normVars,
                 resyncVars, pollVars, otherVars, convVars>>

\* the provider holds a log that processLog rejects
MineMalformed ==
  /\ ~InFlight
  /\ pc # "off"
  /\ mined < MaxMines
  /\ \E n \in {1, StepOf(configChunk)}, sig \in Signatures :
       /\ ethHead' = ethHead + n
       /\ ethLogs' = Append(ethLogs, MalformedLog(ethHead + n, sig))
  /\ mined' = mined + 1
  /\ UNCHANGED <<storeVars, rpcLimit, passVars, liveVars, histVars,
                 tronVars, batchVars, rangeVars, mainVars, pageVars,
                 normVars, resyncVars, pollVars, otherVars, convVars>>

\* Mine while no pass is in flight.  A block mined after the pass read the
\* head lies past latestBlock, where the pass never looks, and one mined
\* before it read the head is one mined before the pass began: without a
\* subscription, mining during a pass leads to the same states as mining
\* before or after it.
MineBetween ==
  /\ ~InFlight
  /\ Mine

\* web3.eth.getPastLogs({fromBlock, toBlock, address, topics}): the logs of
\* the range in chain order
getPastLogs(from, to) ==
  SelectSeq(ethLogs, LAMBDA l : from <= l.blockNumber.value /\ l.blockNumber.value <= to)

(***************************************************************************)
(* EthereumSync.syncToken('USDT', ..., USDT_DEPLOYMENT_BLOCK, forceFullSync) *)
(***************************************************************************)
tokenSymbol == "USDT"
startBlock == USDT_DEPLOYMENT_BLOCK

\* line 66: the first block of the pass
ResumeFrom(lastSyncedBlock) == safeMax(NumberOf(lastSyncedBlock + 1), NumberOf(startBlock))

\* line 80
BatchEndOf(bStart, latest) == safeMin(NumberOf(bStart + maxBatchSize - 1), NumberOf(latest))

\* line 84
WindowEnd(cur, chunk, bEnd) == safeMin(NumberOf(cur + chunk - 1), NumberOf(bEnd))

\* halving without the floor of lines 124-127
ShrinkChunkNoFloor(chunk) == chunk \div 2

\* lines 120-127: the chunk size after a size-limit error
ShrinkChunk(chunk) ==
  LET halved == chunk \div 2
  IN IF halved < MinChunkSize THEN MinChunkSize ELSE halved

\* a cursor write that records the head of the pass for every window
CursorValueHead(to, latest) == latest

\* line 109: the position the cursor row is given after a window
CursorValue(to, latest) == to

\* a loop that begins the next window on the block the last one ended on
NextBlockSame(to) == to

\* line 110: the first block of the next window
NextBlock(to) == to + 1

\* the locals of a pass that has returned are gone
LocalsGone ==
  /\ batchStart' = 0 /\ batchEnd' = 0 /\ currentBlock' = 0 /\ toBlock' = 0
  /\ entries' = <<>> /\ idx' = 1 /\ batchNow' = 0

\* lines 65-71: read the cursor; with forceFullSync begin at startBlock and
\* clear the records of the token
StartPass ==
  /\ pc \in {"idle", "done", "failed"}
  /\ LET lastSyncedBlock == getLastSyncedBlock("ETHEREUM", tokenSymbol)
     IN /\ fromBlock' = IF forceFullSync THEN startBlock ELSE ResumeFrom(lastSyncedBlock)
        /\ passCursor0' = lastSyncedBlock
        /\ IF pc = "failed"
             THEN UNCHANGED <<runStore0, runCursor0, interrupted>>
             ELSE /\ runStore0' = blacklist
                  /\ runCursor0' = lastSyncedBlock
                  /\ interrupted' = FALSE
  /\ blacklist' = IF forceFullSync
                    THEN clearBlacklistData(blacklist, "ETHEREUM", tokenSymbol)
                    ELSE blacklist
  /\ pc' = "head"
  /\ windows' = <<>>
  /\ latestBlock' = 0
  /\ liveSinceStart' = FALSE
  /\ UNCHANGED <<sync_status, now, ethVars, configChunk, chunkSize,
                 batchStart, batchEnd, currentBlock, toBlock, entries, idx,
                 batchNow, liveVars, sizeErrors, lastShrink, aborts,
                 failedFrom, failedTo, written, tronVars, batchVars,
                 rangeVars, mainVars, pageVars, normVars, resyncVars,
                 pollVars, otherVars, convVars>>

\* lines 72-83: read the head, enter the batch loop and the window loop
ReadHead ==
  /\ pc = "head"
  /\ LET latest == safeToNumber(BigIntOf(ethHead))
     IN /\ latestBlock' = latest
        /\ batchStart' = IF fromBlock <= latest THEN fromBlock ELSE 0
        /\ IF fromBlock <= latest
             THEN /\ batchEnd' = BatchEndOf(fromBlock, latest)
                  /\ currentBlock' = fromBlock
                  /\ pc' = "fetch"
             ELSE /\ UNCHANGED <<batchEnd, currentBlock>>
                  /\ pc' = "done"
  /\ failedFrom' = 0
  /\ failedTo' = 0
  /\ UNCHANGED <<storeVars, ethVars, configChunk, chunkSize, fromBlock,
                 toBlock, entries, idx, batchNow, liveVars, windows,
                 sizeErrors, lastShrink, passCursor0, runStore0,
                 runCursor0, interrupted, aborts, written, liveSinceStart,
                 tronVars, batchVars, rangeVars, mainVars, pageVars,
                 normVars, resyncVars, pollVars, otherVars, convVars>>

\* lines 84-103: getPastLogs answers and every log is normalised
Fetched ==
  /\ LET to == WindowEnd(currentBlock, chunkSize, batchEnd)
         logs == getPastLogs(currentBlock, to)
     IN /\ \A i \in 1..Len(logs) : ~processLogThrows(logs[i], tokenSymbol)
        /\ toBlock' = to
        /\ entries' = [i \in 1..Len(logs) |-> processLog(logs[i], tokenSymbol)]
        /\ windows' = Append(windows, <<currentBlock, to>>)
        /\ pc' = IF Len(logs) > 0 THEN "upsert" ELSE "cursor"
  /\ idx' = 1
  /\ UNCHANGED <<storeVars, ethVars, configChunk, chunkSize, fromBlock,
                 latestBlock, batchStart, batchEnd, currentBlock, batchNow,
                 liveVars, sizeErrors, lastShrink, passCursor0, runStore0,
                 runCursor0, interrupted, aborts, failedFrom, failedTo,
                 written, liveSinceStart, tronVars, batchVars, rangeVars,
                 mainVars, pageVars, normVars, resyncVars, pollVars,
                 otherVars, convVars>>

FetchOk ==
  /\ pc = "fetch"
  /\ Fetched

\* the orders in which a provider may return the logs s
Orders(s) ==
  {p \in [1..Len(s) -> 1..Len(s)] : \A i, j \in 1..Len(s) : p[i] = p[j] => i = j}

\* lines 89-103: getPastLogs answers with the logs of the window in an order
\* of the provider's choosing; they are normalised and batched in that order
FetchAnyOrder ==
  /\ pc = "fetch"
  /\ LET to == WindowEnd(currentBlock, chunkSize, batchEnd)
         held == getPastLogs(currentBlock, to)
     IN /\ \A i \in 1..Len(held) : ~processLogThrows(held[i], tokenSymbol)
        /\ \E p \in Orders(held) :
             entries' = [i \in 1..Len(held) |-> processLog(held[p[i]], tokenSymbol)]
        /\ toBlock' = to
        /\ windows' = Append(windows, <<currentBlock, to>>)
        /\ pc' = IF Len(held) > 0 THEN "upsert" ELSE "cursor"
  /\ idx' = 1
  /\ UNCHANGED <<storeVars, ethVars, configChunk, chunkSize, fromBlock,
                 latestBlock, batchStart, batchEnd, currentBlock, batchNow,
                 liveVars, sizeErrors, lastShrink, passCursor0, runStore0,
                 runCursor0, interrupted, aborts, failedFrom, failedTo,
                 written, liveSinceStart, tronVars, batchVars, rangeVars,
                 mainVars, pageVars, normVars, resyncVars, pollVars,
                 otherVars, convVars>>

\* a loop that leaves the log processLog rejects out of the batch and goes on
FetchMalformedSkip ==
  /\ pc = "fetch"
  /\ LET to == WindowEnd(currentBlock, chunkSize, batchEnd)
         logs == getPastLogs(currentBlock, to)
         good == SelectSeq(logs, LAMBDA l : ~processLogThrows(l, tokenSymbol))
     IN /\ \E i \in 1..Len(logs) : processLogThrows(logs[i], tokenSymbol)
        /\ toBlock' = to
        /\ entries' = [i \in 1..Len(good) |-> processLog(good[i], tokenSymbol)]
        /\ windows' = Append(windows, <<currentBlock, to>>)
        /\ pc' = IF Len(good) > 0 THEN "upsert" ELSE "cursor"
  /\ idx' = 1
  /\ UNCHANGED <<storeVars, ethVars, configChunk, chunkSize, fromBlock,
                 latestBlock, batchStart, batchEnd, currentBlock, batchNow,
                 liveVars, sizeErrors, lastShrink, passCursor0, runStore0,
                 runCursor0, interrupted, aborts, failedFrom, failedTo,
                 written, liveSinceStart, tronVars, batchVars, rangeVars,
                 mainVars, pageVars, normVars, resyncVars, pollVars,
                 otherVars, convVars>>

\* lines 96-99, 29-31, 115-130, 138-141: processLog throws on a log of the
\* window before batchUpsertBlacklistEntries is reached; the message matches
\* none of the size-limit patterns, so the error leaves the window loop and
\* syncToken rethrows it
FetchMalformed ==
  /\ pc = "fetch"
  /\ LET to == WindowEnd(currentBlock, chunkSize, batchEnd)
         logs == getPastLogs(currentBlock, to)
     IN /\ \E i \in 1..Len(logs) : processLogThrows(logs[i], tokenSymbol)
        /\ failedTo' = to
  /\ failedFrom' = currentBlock
  /\ pc' = "failed"
  /\ interrupted' = TRUE
  /\ LocalsGone
  /\ latestBlock' = 0
  /\ windows' = <<>>
  /\ UNCHANGED <<storeVars, ethVars, configChunk, chunkSize, fromBlock,
                 liveVars, sizeErrors, lastShrink, passCursor0, runStore0,
                 runCursor0, aborts, written, liveSinceStart, tronVars,
                 batchVars, rangeVars, mainVars, pageVars, normVars,
                 resyncVars, pollVars, otherVars, convVars>>

\* lines 115-128: a size-limit error halves the chunk size and the same
\* window is tried again
HandleSizeLimit ==
  /\ chunkSize' = ShrinkChunk(chunkSize)
  /\ sizeErrors' = Min(sizeErrors + 1, MaxSizeErrors)
  /\ lastShrink' = <<chunkSize, chunkSize'>>
  /\ pc' = "fetch"
  /\ UNCHANGED <<storeVars, ethVars, configChunk, fromBlock, latestBlock,
                 batchStart, batchEnd, currentBlock, toBlock, entries, idx,
                 batchNow, liveVars, windows, passCursor0, runStore0,
                 runCursor0, interrupted, aborts, failedFrom, failedTo,
                 written, liveSinceStart, tronVars, batchVars, rangeVars,
                 mainVars, pageVars, normVars, resyncVars, pollVars,
                 otherVars, convVars>>

\* a provider that may reject any request as too large
FetchSizeLimit ==
  /\ pc = "fetch"
  /\ sizeErrors < MaxSizeErrors
  /\ HandleSizeLimit

\* line 109, then lines 110-113, 83, 133, 79: the cursor row is written for
\* toBlock and the loops advance
CursorWrite ==
  /\ pc = "cursor"
  /\ sync_status' = updateSyncStatus(sync_status, "ETHEREUM", tokenSymbol,
                                     CursorValue(toBlock, latestBlock))
  /\ LET next == NextBlock(toBlock)
     IN IF next <= batchEnd
          THEN /\ currentBlock' = next
               /\ pc' = "fetch"
               /\ UNCHANGED <<batchStart, batchEnd, toBlock, entries, idx, batchNow>>
          ELSE IF batchEnd + 1 <= latestBlock
                 THEN /\ batchStart' = batchEnd + 1
                      /\ batchEnd' = BatchEndOf(batchEnd + 1, latestBlock)
                      /\ currentBlock' = batchEnd + 1
                      /\ pc' = "fetch"
                      /\ UNCHANGED <<toBlock, entries, idx, batchNow>>
                 ELSE /\ LocalsGone
                      /\ pc' = "done"
  /\ UNCHANGED <<blacklist, now, ethVars, configChunk, chunkSize,
                 fromBlock, latestBlock, liveVars, histVars, tronVars,
                 batchVars, rangeVars, mainVars, pageVars, normVars,
                 resyncVars, pollVars, otherVars, convVars>>

\* lines 85-99 of database.js: Date.now() before the loop, then one stmt.run
UpsertStep ==
  /\ pc = "upsert"
  /\ LET t == IF idx = 1 THEN now ELSE batchNow
     IN /\ batchNow' = t
        /\ blacklist' = UpsertRow(blacklist, entries[idx], t)
  /\ written' = written \cup {entries[idx].transaction_hash}
  /\ IF idx = Len(entries)
       THEN pc' = "cursor" /\ idx' = 1
       ELSE pc' = "upsert" /\ idx' = idx + 1
  /\ UNCHANGED <<sync_status, now, ethVars, configChunk, chunkSize,
                 fromBlock, latestBlock, batchStart, batchEnd,
                 currentBlock, toBlock, entries, liveVars, windows,
                 sizeErrors, lastShrink, passCursor0, runStore0,
                 runCursor0, interrupted, aborts, failedFrom, failedTo,
                 liveSinceStart, tronVars, batchVars, rangeVars, mainVars,
                 pageVars, normVars, resyncVars, pollVars, otherVars,
                 convVars>>

\* an error handler that takes every error for a size-limit error: the chunk
\* size is halved and the loop goes on (the 'continue' of line 128)
ThrowRetried ==
  /\ InFlight
  /\ aborts < MaxAborts
  /\ aborts' = aborts + 1
  /\ chunkSize' = ShrinkChunk(chunkSize)
  /\ UNCHANGED <<storeVars, ethVars, configChunk, pc, fromBlock,
                 latestBlock, batchStart, batchEnd, currentBlock, toBlock,
                 entries, idx, batchNow, liveVars, windows, sizeErrors,
                 lastShrink, passCursor0, runStore0, runCursor0,
                 interrupted, failedFrom, failedTo, written,
                 liveSinceStart, tronVars, batchVars, rangeVars, mainVars,
                 pageVars, normVars, resyncVars, pollVars, otherVars,
                 convVars>>

\* lines 130, 138-141: getBlockNumber, getPastLogs, getBlock, stmt.run or
\* db.run rejects with an error that is no size-limit error; syncToken
\* rethrows it
Throw ==
  /\ InFlight
  /\ aborts < MaxAborts
  /\ aborts' = aborts + 1
  /\ pc' = "failed"
  /\ interrupted' = TRUE
  /\ failedFrom' = IF pc = "head" THEN fromBlock ELSE currentBlock
  /\ LocalsGone
  /\ latestBlock' = 0
  /\ windows' = <<>>
  /\ UNCHANGED <<storeVars, ethVars, configChunk, chunkSize, fromBlock,
                 liveVars, sizeErrors, lastShrink, passCursor0, runStore0,
                 runCursor0, failedTo, written, liveSinceStart, tronVars,
                 batchVars, rangeVars, mainVars, pageVars, normVars,
                 resyncVars, pollVars, otherVars, convVars>>

\* lines 89-94, 115-118, 130: getPastLogs rejects with a message that matches
\* none of the size-limit patterns
FetchError ==
  /\ pc = "fetch"
  /\ Throw

\* database.js lines 87-99: a stmt.run of the batch rejects
UpsertThrow ==
  /\ pc = "upsert"
  /\ Throw

\* the process dies and is started again: a new EthereumSync instance
Crash ==
  /\ InFlight
  /\ aborts < MaxAborts
  /\ aborts' = aborts + 1
  /\ pc' = "failed"
  /\ interrupted' = TRUE
  /\ failedFrom' = IF pc = "head" THEN fromBlock ELSE currentBlock
  /\ chunkSize' = configChunk
  /\ liveOn' = FALSE
  /\ liveInFlight' = {}
  /\ LocalsGone
  /\ latestBlock' = 0
  /\ windows' = <<>>
  /\ UNCHANGED <<storeVars, ethVars, configChunk, fromBlock, sizeErrors,
                 lastShrink, passCursor0, runStore0, runCursor0, failedTo,
                 written, liveSinceStart, tronVars, batchVars, rangeVars,
                 mainVars, pageVars, normVars, resyncVars, pollVars,
                 otherVars, convVars>>

(***************************************************************************)
(* EthereumSync.liveSync: the USDT subscription.                           *)
(***************************************************************************)
\* index.js lines 40-52: liveSync() is called once the initial sync returned
LiveStart ==
  /\ ~liveOn
  /\ pc = "done"
  /\ liveOn' = TRUE
  /\ UNCHANGED <<storeVars, ethVars, passVars, liveInFlight, histVars,
                 tronVars, batchVars, rangeVars, mainVars, pageVars,
                 normVars, resyncVars, pollVars, otherVars, convVars>>

\* lines 184-188: a 'data' handler, after its await of processLog (getBlock),
\* runs upsertBlacklistEntry; handlers of different events finish in any order
LiveUpsert ==
  /\ \E event \in liveInFlight :
       /\ ~processLogThrows(event, "USDT")
       /\ blacklist' = UpsertRow(blacklist, processLog(event, "USDT"), now)
       /\ written' = written \cup {event.transactionHash}
       /\ liveInFlight' = liveInFlight \ {event}
  /\ liveSinceStart' = TRUE
  /\ UNCHANGED <<sync_status, now, ethVars, passVars, liveOn, windows,
                 sizeErrors, lastShrink, passCursor0, runStore0,
                 runCursor0, interrupted, aborts, failedFrom, failedTo,
                 tronVars, batchVars, rangeVars, mainVars, pageVars,
                 normVars, resyncVars, pollVars, otherVars, convVars>>

\* Date.now() moves on
Tick ==
  /\ now < MaxClock
  /\ now' = now + 1
  /\ UNCHANGED <<blacklist, sync_status, ethVars, passVars, liveVars,
                 histVars, tronVars, batchVars, rangeVars, mainVars,
                 pageVars, normVars, resyncVars, pollVars, otherVars,
                 convVars>>

(***************************************************************************)
(* The TRON chain.  Times are in clock units of the model: a block every   *)
(* TronBlockMs units, a month of oneMonthMs units, a year of oneYearMs     *)
(* units.  The source's values (3000, 2592000000 and 31536000000 ms) are   *)
(* beyond the integers TLC computes with; the model keeps their order      *)
(* TronBlockMs < oneMonthMs < oneYearMs and that a year is more than two   *)
(* months.                                                                 *)
(***************************************************************************)
TronBlockMs == 2
oneMonthMs == 4
oneYearMs == 9
MaxClockLag == 1     \* Date.now() is at most this far past the head's timestamp
TronFirstHead == 10  \* the head when the service is first started

\* TronGrid's `limit` parameter, and the length the loop compares a page with
PageLimit == 100
PageFull == 200

\* block_header.raw_data.timestamp of block b
TronBlockTimestamp(b) == TronBlockMs * b

\* base58 addresses as the events carry them, and tronWeb.address.toHex
TronAddresses == {"TAbc", "TXyz"}
toHex(a) == CASE a = "TAbc" -> <<"4", "1", "a", "b">>
              [] a = "TXyz" -> <<"4", "1", "c", "d">>

\* the events syncToken asks for (tron/sync.js lines 118-121)
TronEventNames == <<"AddedBlackList", "RemovedBlackList">>

TronEvent(b, user, name) == [event_name |-> name,
                             result |-> [_user |-> user],
                             block_number |-> NumberOf(b),
                             block_timestamp |-> NumberOf(TronBlockTimestamp(b)),
                             transaction_id |-> <<"tx", "TRON", b>>]

\* TronSync.processEvent
processEvent(event, token) ==
  LET address == event.result._user
      hexAddress == toHex(address)
      eventName == event.event_name
      isBlacklisted == ~(eventName = "RemovedBlackList" \/ eventName = "UnBlacklisted")
  IN [address |-> hexAddress,
      token |-> token,
      network |-> "TRON",
      is_blacklisted |-> isBlacklisted,
      block_number |-> safeToNumber(event.block_number),
      transaction_hash |-> event.transaction_id,
      timestamp |-> safeToNumber(event.block_timestamp)]

\* TronSync.fetchEventsForRange: the first page of at most PageLimit events;
\* a page of fewer than PageFull events ends the loop
RECURSIVE fetchPages(_, _)
fetchPages(matching, from) ==
  LET page == SubSeq(matching, from, Min(Len(matching), from + PageLimit - 1))
  IN IF Len(page) = 0 THEN <<>>
     ELSE IF Len(page) < PageFull THEN page
     ELSE page \o fetchPages(matching, from + Len(page))

fetchEventsForRange(eventName, minBlockTimestamp, maxBlockTimestamp) ==
  fetchPages(SelectSeq(tronEvents,
                       LAMBDA e : /\ e.event_name = eventName
                                  /\ minBlockTimestamp <= e.block_timestamp.value
                                  /\ e.block_timestamp.value <= maxBlockTimestamp),
             1)

(***************************************************************************)
(* TronSync.fetchEventsForRange step by step.  The indexer holds pageHeld  *)
(* events for the window, numbered in the order it serves them; a token    *)
(* names the position after the page it came with, 0 stands for no token.  *)
(* The indexer honours the limit of the request.                           *)
(***************************************************************************)
\* the data array of the response to a request with this fingerprint
ServedPage(fp) ==
  [i \in 1..Min(PageLimit, pageHeld - fp) |-> fp + i]

\* the tokens the indexer may send with that page: the position after it
\* when more events follow, or none
ServedTokens(fp) ==
  LET last == fp + Len(ServedPage(fp))
  IN IF Len(ServedPage(fp)) > 0 /\ last < pageHeld THEN {last, 0} ELSE {0}

\* a loop that goes on as long as the page holds events
MorePagesWhileData(len, token) == len > 0

\* lines 337-341: the loop goes on with the token of the response
MorePages(len, token) == ~(token = 0 \/ len < PageFull)

\* lines 305-341: one turn of the while (true) loop
PageRequest ==
  /\ pagePc = "loop"
  /\ requests' = Append(requests, fingerprint)
  /\ \E token \in ServedTokens(fingerprint) :
       LET data == ServedPage(fingerprint)
       IN /\ pageLast' = <<Len(data), token>>
          /\ tokenWithheld' = (tokenWithheld \/ (token = 0 /\ fingerprint + Len(data) < pageHeld))
          /\ IF Len(data) = 0
               THEN /\ pagePc' = "done"
                    /\ UNCHANGED <<pageEvents, fingerprint>>
               ELSE /\ pageEvents' = pageEvents \o data
                    /\ IF MorePages(Len(data), token)
                         THEN /\ fingerprint' = token
                              /\ pagePc' = "loop"
                         ELSE /\ pagePc' = "done"
                              /\ UNCHANGED fingerprint
  /\ UNCHANGED <<storeVars, ethVars, passVars, liveVars, histVars,
                 tronVars, batchVars, rangeVars, mainVars, pageHeld,
                 normVars, resyncVars, pollVars, otherVars, convVars>>

\* TronSync.getContractEvents, lines 277-289: the ranges of the monthly loop
RECURSIVE MonthlyFrom(_, _)
MonthlyFrom(currentStart, maxBlockTimestamp) ==
  IF currentStart < maxBlockTimestamp
    THEN LET currentEnd == Min(currentStart + oneMonthMs, maxBlockTimestamp)
         IN <<<<currentStart, currentEnd>>>> \o MonthlyFrom(currentEnd + 1, maxBlockTimestamp)
    ELSE <<>>

\* lines 270-294: the ranges one getContractEvents call fetches
RangesOf(minBlockTimestamp, maxBlockTimestamp) ==
  LET dateRange == maxBlockTimestamp - minBlockTimestamp
  IN IF dateRange > oneMonthMs
       THEN MonthlyFrom(minBlockTimestamp, maxBlockTimestamp)
       ELSE <<<<minBlockTimestamp, maxBlockTimestamp>>>>

RECURSIVE FetchRanges(_, _, _)
FetchRanges(eventName, ranges, i) ==
  IF i > Len(ranges) THEN <<>>
  ELSE fetchEventsForRange(eventName, ranges[i][1], ranges[i][2])
         \o FetchRanges(eventName, ranges, i + 1)

getContractEvents(eventName, minBlockTimestamp, maxBlockTimestamp) ==
  FetchRanges(eventName, RangesOf(minBlockTimestamp, maxBlockTimestamp), 1)

\* line 393: allEvents.sort((a, b) => a.block_number - b.block_number), a
\* stable sort
RECURSIVE SortByBlock(_)
SortByBlock(s) ==
  IF Len(s) <= 1 THEN s
  ELSE LET pivot == s[1]
           tail == SubSeq(s, 2, Len(s))
           before == SelectSeq(tail, LAMBDA e : e.block_number.value < pivot.block_number.value)
           after == SelectSeq(tail, LAMBDA e : e.block_number.value >= pivot.block_number.value)
       IN SortByBlock(before) \o <<pivot>> \o SortByBlock(after)

TronInFlight == tronPc \in {"head", "fetch", "upsert", "cursor"}

\* the chain grows by n blocks; the new head block may carry one event
TronMine ==
  /\ tronPc # "off"
  /\ ~TronInFlight
  /\ mined < MaxMines
  /\ \E n \in {1, 2} :
       /\ tronHead' = tronHead + n
       /\ \/ tronEvents' = tronEvents
          \/ \E user \in TronAddresses, i \in 1..Len(TronEventNames) :
               tronEvents' = Append(tronEvents,
                                    TronEvent(tronHead + n, user, TronEventNames[i]))
  /\ mined' = mined + 1
  /\ UNCHANGED <<storeVars, ethHead, ethLogs, rpcLimit, passVars, liveVars,
                 histVars, tronPc, tronLastSyncedBlock, currentBlockNumber,
                 currentTimestamp, fromTimestamp, tronEntries, tronIdx,
                 tronBatchNow, tronWindows, tronFetched, batchVars,
                 rangeVars, mainVars, pageVars, normVars, resyncVars,
                 pollVars, otherVars, convVars>>

TronLocalsGone ==
  /\ currentBlockNumber' = 0 /\ currentTimestamp' = 0 /\ fromTimestamp' = 0
  /\ tronEntries' = <<>> /\ tronIdx' = 1 /\ tronBatchNow' = 0

(***************************************************************************)
(* TronSync.syncToken('USDT', CONTRACTS.TRON.USDT, forceFullSync)          *)
(***************************************************************************)
\* lines 355-358: read the cursor
TronStart ==
  /\ tronPc \in {"idle", "done", "failed"}
  /\ tronLastSyncedBlock' = IF tronForceFullSync THEN 0
                            ELSE getLastSyncedBlock("TRON", "USDT")
  /\ tronPc' = "head"
  /\ tronWindows' = <<>>
  /\ tronFetched' = {}
  /\ UNCHANGED <<storeVars, ethVars, passVars, liveVars, histVars,
                 tronHead, tronEvents, currentBlockNumber,
                 currentTimestamp, fromTimestamp, tronEntries, tronIdx,
                 tronBatchNow, batchVars, rangeVars, mainVars, pageVars,
                 normVars, resyncVars, pollVars, otherVars, convVars>>

\* lines 361-376: the current block, then the timestamp to begin at.  The
\* wall clock is at or a little past the head's timestamp; getBlockByNumber
\* answers or rejects.
TronReadHead ==
  /\ tronPc = "head"
  /\ currentBlockNumber' = tronHead
  /\ currentTimestamp' = TronBlockTimestamp(tronHead)
  /\ IF tronLastSyncedBlock > 0 /\ ~tronForceFullSync
       THEN \/ fromTimestamp' = TronBlockTimestamp(tronLastSyncedBlock) + 1
            \/ fromTimestamp' = TronBlockTimestamp(tronHead) - oneMonthMs
       ELSE \E lag \in 0..MaxClockLag :
              fromTimestamp' = (TronBlockTimestamp(tronHead) + lag) - oneYearMs
  /\ tronPc' = "fetch"
  /\ UNCHANGED <<storeVars, ethVars, passVars, liveVars, histVars,
                 tronHead, tronEvents, tronLastSyncedBlock, tronEntries,
                 tronIdx, tronBatchNow, tronWindows, tronFetched,
                 batchVars, rangeVars, mainVars, pageVars, normVars,
                 resyncVars, pollVars, otherVars, convVars>>

\* lines 277-289, 292: the next range of the getContractEvents calls is
\* fetched.  The calls for the event names run side by side over the same
\* ranges and read only the chain, so their requests for one range are one
\* step.
TronFetchWindow ==
  /\ tronPc = "fetch"
  /\ LET ranges == RangesOf(fromTimestamp, currentTimestamp)
     IN /\ Len(tronWindows) < Len(ranges)
        /\ tronWindows' = Append(tronWindows, ranges[Len(tronWindows) + 1])
  /\ UNCHANGED <<storeVars, ethVars, passVars, liveVars, histVars,
                 tronHead, tronEvents, tronPc, tronLastSyncedBlock,
                 currentBlockNumber, currentTimestamp, fromTimestamp,
                 tronEntries, tronIdx, tronBatchNow, tronFetched,
                 batchVars, rangeVars, mainVars, pageVars, normVars,
                 resyncVars, pollVars, otherVars, convVars>>

\* lines 382-405: every getContractEvents call has returned; the events are
\* sorted and normalised and, with forceFullSync and an event found, the
\* records of the token are cleared
TronFetchOk ==
  /\ tronPc = "fetch"
  /\ tronWindows = RangesOf(fromTimestamp, currentTimestamp)
  /\ LET perName == [i \in 1..Len(TronEventNames) |->
                       getContractEvents(TronEventNames[i], fromTimestamp, currentTimestamp)]
         allEvents == perName[1] \o perName[2]
         sorted == SortByBlock(allEvents)
     IN /\ tronEntries' = [i \in 1..Len(sorted) |-> processEvent(sorted[i], "USDT")]
        /\ tronFetched' = {allEvents[i].transaction_id : i \in 1..Len(allEvents)}
        /\ tronPc' = IF Len(allEvents) > 0 THEN "upsert" ELSE "cursor"
        /\ blacklist' = IF Len(allEvents) > 0 /\ tronForceFullSync
                          THEN clearBlacklistData(blacklist, "TRON", "USDT")
                          ELSE blacklist
  /\ tronIdx' = 1
  /\ UNCHANGED <<sync_status, now, ethVars, passVars, liveVars, histVars,
                 tronHead, tronEvents, tronLastSyncedBlock,
                 currentBlockNumber, currentTimestamp, fromTimestamp,
                 tronBatchNow, tronWindows, batchVars, rangeVars, mainVars,
                 pageVars, normVars, resyncVars, pollVars, otherVars,
                 convVars>>

\* line 407: batchUpsertBlacklistEntries, one stmt.run per step
TronUpsertStep ==
  /\ tronPc = "upsert"
  /\ LET t == IF tronIdx = 1 THEN now ELSE tronBatchNow
     IN /\ tronBatchNow' = t
        /\ blacklist' = UpsertRow(blacklist, tronEntries[tronIdx], t)
  /\ written' = written \cup {tronEntries[tronIdx].transaction_hash}
  /\ IF tronIdx = Len(tronEntries)
       THEN tronPc' = "cursor" /\ tronIdx' = 1
       ELSE tronPc' = "upsert" /\ tronIdx' = tronIdx + 1
  /\ UNCHANGED <<sync_status, now, ethVars, passVars, liveVars, windows,
                 sizeErrors, lastShrink, passCursor0, runStore0,
                 runCursor0, interrupted, aborts, failedFrom, failedTo,
                 liveSinceStart, tronHead, tronEvents, tronLastSyncedBlock,
                 currentBlockNumber, currentTimestamp, fromTimestamp,
                 tronEntries, tronWindows, tronFetched, batchVars,
                 rangeVars, mainVars, pageVars, normVars, resyncVars,
                 pollVars, otherVars, convVars>>

\* line 413: the one cursor write of the pass
TronCursorWrite ==
  /\ tronPc = "cursor"
  /\ sync_status' = updateSyncStatus(sync_status, "TRON", "USDT", currentBlockNumber)
  /\ tronPc' = "done"
  /\ tronEntries' = <<>> /\ tronIdx' = 1 /\ tronBatchNow' = 0
  /\ UNCHANGED <<blacklist, now, ethVars, passVars, liveVars, histVars,
                 tronHead, tronEvents, tronLastSyncedBlock,
                 currentBlockNumber, currentTimestamp, fromTimestamp,
                 tronWindows, tronFetched, batchVars, rangeVars, mainVars,
                 pageVars, normVars, resyncVars, pollVars, otherVars,
                 convVars>>

\* lines 416-419: a request or a store write rejects; syncToken rethrows
TronThrow ==
  /\ TronInFlight
  /\ aborts < MaxAborts
  /\ aborts' = aborts + 1
  /\ tronPc' = "failed"
  /\ TronLocalsGone
  /\ tronWindows' = <<>>
  /\ tronFetched' = {}
  /\ UNCHANGED <<storeVars, ethVars, passVars, liveVars, windows,
                 sizeErrors, lastShrink, passCursor0, runStore0,
                 runCursor0, interrupted, failedFrom, failedTo, written,
                 liveSinceStart, tronHead, tronEvents, tronLastSyncedBlock,
                 batchVars, rangeVars, mainVars, pageVars, normVars,
                 resyncVars, pollVars, otherVars, convVars>>

\* lines 323-325, 343-346, 416-419: the indexer answers with a status that is
\* not OK; fetchEventsForRange throws and rethrows, and so does syncToken
TronFetchError ==
  /\ tronPc = "fetch"
  /\ TronThrow


(***************************************************************************)
(* TronSync.liveSync: setInterval(pollForEvents, pollInterval).            *)
(***************************************************************************)
\* line 453
pollInterval == 3000

\* a poll that looks back one poll interval
LookBackOnce(interval) == interval

\* line 459: currentTimestamp - (pollInterval * 2)
LookBack(interval) == interval * 2

\* blocks the chain grows by between two callbacks of the timer: none, one,
\* and as many as span half of, all of and more than the look-back
PollBlocks == {0, 1, pollInterval \div 2, pollInterval, pollInterval + 1}

PollMine ==
  /\ tronPc # "off"
  /\ polls < MaxPolls
  /\ mined < MaxMines
  /\ \E n \in PollBlocks \ {0} :
       /\ tronHead' = tronHead + n
       /\ \/ tronEvents' = tronEvents
          \/ \E i \in 1..Len(TronEventNames) :
               tronEvents' = Append(tronEvents,
                                    TronEvent(tronHead + n, "TAbc", TronEventNames[i]))
  /\ mined' = mined + 1
  /\ UNCHANGED <<storeVars, ethHead, ethLogs, rpcLimit, passVars, liveVars,
                 histVars, tronPc, tronLastSyncedBlock, currentBlockNumber,
                 currentTimestamp, fromTimestamp, tronEntries, tronIdx,
                 tronBatchNow, tronWindows, tronFetched, batchVars,
                 rangeVars, mainVars, pageVars, normVars, resyncVars,
                 pollVars, otherVars, convVars>>

\* lines 290-293: a range of 2 * pollInterval = 6000 ms is below one month,
\* so getContractEvents makes the single request of its else branch
PollEvents(eventName, fromTs, toTs) == fetchEventsForRange(eventName, fromTs, toTs)

\* lines 481-486: processEvent and upsertBlacklistEntry per event, in the
\* order of the results
RECURSIVE PollApply(_, _, _, _)
PollApply(tbl, events, i, t) ==
  IF i > Len(events) THEN tbl
  ELSE PollApply(upsertBlacklistEntry(tbl, processEvent(events[i], "USDT"), t),
                 events, i + 1, t)

\* lines 455-487: one callback of the timer
PollForEvents ==
  /\ tronPc # "off"
  /\ polls < MaxPolls
  /\ LET currentTs == TronBlockTimestamp(tronHead)
         fromTs == currentTs - LookBack(pollInterval)
         results == PollEvents(TronEventNames[1], fromTs, currentTs)
                      \o PollEvents(TronEventNames[2], fromTs, currentTs)
     IN /\ pollWindows' = Append(pollWindows, <<fromTs, currentTs, tronHead>>)
        /\ blacklist' = PollApply(blacklist, results, 1, now)
  /\ polls' = polls + 1
  /\ UNCHANGED <<sync_status, now, ethVars, passVars, liveVars, histVars,
                 tronVars, batchVars, rangeVars, mainVars, pageVars,
                 normVars, resyncVars, otherVars, convVars>>

\* lines 488-490: getCurrentBlock or a request rejects; the error is logged
\* and the callback ends
PollError ==
  /\ tronPc # "off"
  /\ polls < MaxPolls
  /\ polls' = polls + 1
  /\ UNCHANGED <<storeVars, ethVars, passVars, liveVars, histVars,
                 tronVars, batchVars, rangeVars, mainVars, pageVars,
                 normVars, resyncVars, pollWindows, otherVars, convVars>>
(***************************************************************************)
(* The process.  index.js main runs the initial sync of the selected       *)
(* chains, then starts the live listeners, the schedule and the signal     *)
(* handlers, or exits in one-time mode; ethereum/sync.js and tron/sync.js  *)
(* run directly do the same for their own chain.  A syncAll call is        *)
(* "Call" when main reaches it and "Wait" while main awaits it; pc and     *)
(* tronPc go back to "idle" when the awaiting code has taken the outcome.  *)
(***************************************************************************)
\* index.js line 27: args[0] || 'all'
syncMode(a) == IF Len(a) > 0 THEN a[1] ELSE "all"

\* index.js line 28, ethereum/sync.js line 216, tron/sync.js line 507
runOnce(a) == \E i \in 1..Len(a) : a[i] = "--once"

\* ethereum/sync.js line 217, tron/sync.js line 508
isFullSync(a) == \E i \in 1..Len(a) : a[i] = "--full-sync"

\* index.js lines 34, 38: syncAll() takes the default, false; ethereum/sync.js
\* line 224, tron/sync.js line 515: syncAll(isFullSync)
InitialFlag == entryPoint # "index" /\ isFullSync(args)

\* a schedule that passes on the flag of the command line
ScheduledFlagAsInitial == InitialFlag

\* index.js lines 60, 64: syncAll(); ethereum/sync.js line 232, tron/sync.js
\* line 522: syncAll(false)
ScheduledFlag == FALSE

\* index.js lines 33, 43, 59; a driver module syncs its own chain
SelectsEthereum ==
  IF entryPoint = "index" THEN syncMode(args) \in {"ethereum", "all"}
                     ELSE entryPoint = "ethereum"

\* index.js lines 37, 47, 63
SelectsTron ==
  IF entryPoint = "index" THEN syncMode(args) \in {"tron", "all"}
                     ELSE entryPoint = "tron"

\* a main that starts the Ethereum listener when it calls the initial sync
MainEthCallLiveFirst ==
  /\ mainPc = "ethCall"
  /\ IF SelectsEthereum
       THEN /\ mainPc' = "ethWait"
            /\ ethPasses' = ethPasses + 1
            /\ forceFullSync' = InitialFlag
            /\ liveOn' = ~runOnce(args)
       ELSE /\ mainPc' = "tronCall"
            /\ UNCHANGED <<ethPasses, forceFullSync, liveOn>>
  /\ UNCHANGED <<storeVars, ethVars, passVars, liveInFlight, histVars,
                 tronVars, batchVars, rangeVars, entryPoint, args, cronPc,
                 cronRuns, dbOpen, exitCode, tronLiveOn, tronPasses,
                 signalled, pageVars, normVars, tronForceFullSync,
                 pollVars, otherVars, convVars>>

\* index.js lines 33-35, ethereum/sync.js line 224: the initial Ethereum sync
MainEthCall ==
  /\ mainPc = "ethCall"
  /\ IF SelectsEthereum
       THEN /\ mainPc' = "ethWait"
            /\ ethPasses' = ethPasses + 1
            /\ forceFullSync' = InitialFlag
       ELSE /\ mainPc' = "tronCall"
            /\ UNCHANGED <<ethPasses, forceFullSync>>
  /\ UNCHANGED <<storeVars, ethVars, passVars, liveVars, histVars,
                 tronVars, batchVars, rangeVars, entryPoint, args, cronPc,
                 cronRuns, dbOpen, exitCode, tronLiveOn, tronPasses,
                 signalled, pageVars, normVars, tronForceFullSync,
                 pollVars, otherVars, convVars>>

\* index.js line 34: the await returns
MainEthReturned ==
  /\ mainPc = "ethWait"
  /\ pc = "done"
  /\ mainPc' = "tronCall"
  /\ pc' = "idle"
  /\ UNCHANGED <<storeVars, ethVars, configChunk, chunkSize, fromBlock,
                 latestBlock, batchStart, batchEnd, currentBlock, toBlock,
                 entries, idx, batchNow, liveVars, histVars, tronVars,
                 batchVars, rangeVars, entryPoint, args, cronPc, cronRuns,
                 dbOpen, exitCode, tronLiveOn, ethPasses, tronPasses,
                 signalled, pageVars, normVars, resyncVars, pollVars,
                 otherVars, convVars>>

\* index.js lines 37-39, tron/sync.js line 515: the initial TRON sync
MainTronCall ==
  /\ mainPc = "tronCall"
  /\ IF SelectsTron
       THEN /\ mainPc' = "tronWait"
            /\ tronPasses' = tronPasses + 1
            /\ tronForceFullSync' = InitialFlag
       ELSE /\ mainPc' = "afterSync"
            /\ UNCHANGED <<tronPasses, tronForceFullSync>>
  /\ UNCHANGED <<storeVars, ethVars, passVars, liveVars, histVars,
                 tronVars, batchVars, rangeVars, entryPoint, args, cronPc,
                 cronRuns, dbOpen, exitCode, tronLiveOn, ethPasses,
                 signalled, pageVars, normVars, forceFullSync, pollVars,
                 otherVars, convVars>>

\* index.js line 38: the await returns
MainTronReturned ==
  /\ mainPc = "tronWait"
  /\ tronPc = "done"
  /\ mainPc' = "afterSync"
  /\ tronPc' = "idle"
  /\ UNCHANGED <<storeVars, ethVars, passVars, liveVars, histVars,
                 tronHead, tronEvents, tronLastSyncedBlock,
                 currentBlockNumber, currentTimestamp, fromTimestamp,
                 tronEntries, tronIdx, tronBatchNow, tronWindows,
                 tronFetched, batchVars, rangeVars, entryPoint, args,
                 cronPc, cronRuns, dbOpen, exitCode, tronLiveOn, ethPasses,
                 tronPasses, signalled, pageVars, normVars, resyncVars,
                 pollVars, otherVars, convVars>>

\* index.js lines 99-103: an initial sync threw; main closes the database and
\* exits with code 1.  In a driver module the rejection of the top-level
\* await ends the process with code 1, the database left open.
MainCatch ==
  /\ \/ mainPc = "ethWait" /\ pc = "failed"
     \/ mainPc = "tronWait" /\ tronPc = "failed"
  /\ mainPc' = "exited"
  /\ exitCode' = 1
  /\ dbOpen' = (entryPoint # "index")
  /\ UNCHANGED <<storeVars, ethVars, passVars, liveVars, histVars,
                 tronVars, batchVars, rangeVars, entryPoint, args, cronPc,
                 cronRuns, tronLiveOn, ethPasses, tronPasses, signalled,
                 pageVars, normVars, resyncVars, pollVars, otherVars,
                 convVars>>

\* index.js lines 41-97, ethereum/sync.js lines 227-234, tron/sync.js lines
\* 518-525: live listeners, schedule and signal handlers, or the one-time exit
MainAfterSync ==
  /\ mainPc = "afterSync"
  /\ IF ~runOnce(args)
       THEN /\ liveOn' = SelectsEthereum
            /\ tronLiveOn' = SelectsTron
            /\ mainPc' = "started"
            /\ UNCHANGED <<dbOpen, exitCode>>
       ELSE /\ mainPc' = "exited"
            /\ exitCode' = 0
            /\ dbOpen' = (entryPoint # "index")
            /\ UNCHANGED <<liveOn, tronLiveOn>>
  /\ UNCHANGED <<storeVars, ethVars, passVars, liveInFlight, histVars,
                 tronVars, batchVars, rangeVars, entryPoint, args, cronPc,
                 cronRuns, ethPasses, tronPasses, signalled, pageVars,
                 normVars, resyncVars, pollVars, otherVars, convVars>>

\* index.js line 54, ethereum/sync.js line 231: the schedule fires
CronFire ==
  /\ mainPc = "started"
  /\ cronPc = "idle"
  /\ cronRuns < MaxCronRuns
  /\ cronPc' = "ethCall"
  /\ cronRuns' = cronRuns + 1
  /\ UNCHANGED <<storeVars, ethVars, passVars, liveVars, histVars,
                 tronVars, batchVars, rangeVars, entryPoint, args, mainPc,
                 dbOpen, exitCode, tronLiveOn, ethPasses, tronPasses,
                 signalled, pageVars, normVars, resyncVars, pollVars,
                 otherVars, convVars>>

\* index.js lines 58-61, ethereum/sync.js line 232
CronEthCall ==
  /\ mainPc = "started"
  /\ cronPc = "ethCall"
  /\ IF SelectsEthereum
       THEN /\ cronPc' = "ethWait"
            /\ ethPasses' = ethPasses + 1
            /\ forceFullSync' = ScheduledFlag
       ELSE /\ cronPc' = "tronCall"
            /\ UNCHANGED <<ethPasses, forceFullSync>>
  /\ UNCHANGED <<storeVars, ethVars, passVars, liveVars, histVars,
                 tronVars, batchVars, rangeVars, entryPoint, args, mainPc,
                 cronRuns, dbOpen, exitCode, tronLiveOn, tronPasses,
                 signalled, pageVars, normVars, tronForceFullSync,
                 pollVars, otherVars, convVars>>

CronEthReturned ==
  /\ mainPc = "started"
  /\ cronPc = "ethWait"
  /\ pc = "done"
  /\ cronPc' = "tronCall"
  /\ pc' = "idle"
  /\ UNCHANGED <<storeVars, ethVars, configChunk, chunkSize, fromBlock,
                 latestBlock, batchStart, batchEnd, currentBlock, toBlock,
                 entries, idx, batchNow, liveVars, histVars, tronVars,
                 batchVars, rangeVars, entryPoint, args, mainPc, cronRuns,
                 dbOpen, exitCode, tronLiveOn, ethPasses, tronPasses,
                 signalled, pageVars, normVars, resyncVars, pollVars,
                 otherVars, convVars>>

\* index.js lines 63-65, tron/sync.js line 522
CronTronCall ==
  /\ mainPc = "started"
  /\ cronPc = "tronCall"
  /\ IF SelectsTron
       THEN /\ cronPc' = "tronWait"
            /\ tronPasses' = tronPasses + 1
            /\ tronForceFullSync' = ScheduledFlag
       ELSE /\ cronPc' = "idle"
            /\ UNCHANGED <<tronPasses, tronForceFullSync>>
  /\ UNCHANGED <<storeVars, ethVars, passVars, liveVars, histVars,
                 tronVars, batchVars, rangeVars, entryPoint, args, mainPc,
                 cronRuns, dbOpen, exitCode, tronLiveOn, ethPasses,
                 signalled, pageVars, normVars, forceFullSync, pollVars,
                 otherVars, convVars>>

\* index.js lines 66-69: the callback ends
CronTronReturned ==
  /\ mainPc = "started"
  /\ cronPc = "tronWait"
  /\ tronPc = "done"
  /\ cronPc' = "idle"
  /\ tronPc' = "idle"
  /\ UNCHANGED <<storeVars, ethVars, passVars, liveVars, histVars,
                 tronHead, tronEvents, tronLastSyncedBlock,
                 currentBlockNumber, currentTimestamp, fromTimestamp,
                 tronEntries, tronIdx, tronBatchNow, tronWindows,
                 tronFetched, batchVars, rangeVars, entryPoint, args,
                 mainPc, cronRuns, dbOpen, exitCode, tronLiveOn, ethPasses,
                 tronPasses, signalled, pageVars, normVars, resyncVars,
                 pollVars, otherVars, convVars>>

\* index.js lines 70-72: the one catch of the callback logs the error of
\* either chain and the callback ends.  The setInterval callback of a driver
\* module has no catch: the rejection ends the process with code 1.
CronCatch ==
  /\ mainPc = "started"
  /\ \/ cronPc = "ethWait" /\ pc = "failed"
     \/ cronPc = "tronWait" /\ tronPc = "failed"
  /\ IF entryPoint = "index"
       THEN /\ cronPc' = "idle"
            /\ pc' = IF pc = "failed" THEN "idle" ELSE pc
            /\ tronPc' = IF tronPc = "failed" THEN "idle" ELSE tronPc
            /\ UNCHANGED <<mainPc, exitCode>>
       ELSE /\ mainPc' = "exited"
            /\ exitCode' = 1
            /\ UNCHANGED <<cronPc, pc, tronPc>>
  /\ UNCHANGED <<storeVars, ethVars, configChunk, chunkSize, fromBlock,
                 latestBlock, batchStart, batchEnd, currentBlock, toBlock,
                 entries, idx, batchNow, liveVars, histVars, tronHead,
                 tronEvents, tronLastSyncedBlock, currentBlockNumber,
                 currentTimestamp, fromTimestamp, tronEntries, tronIdx,
                 tronBatchNow, tronWindows, tronFetched, batchVars,
                 rangeVars, entryPoint, args, cronRuns, dbOpen, tronLiveOn,
                 ethPasses, tronPasses, signalled, pageVars, normVars,
                 resyncVars, pollVars, otherVars, convVars>>

\* index.js lines 81-91: the SIGINT or SIGTERM handler closes the database
\* and exits
Signal ==
  /\ mainPc = "started"
  /\ entryPoint = "index"
  /\ dbOpen' = FALSE
  /\ exitCode' = 0
  /\ mainPc' = "exited"
  /\ signalled' = TRUE
  /\ UNCHANGED <<storeVars, ethVars, passVars, liveVars, histVars,
                 tronVars, batchVars, rangeVars, entryPoint, args, cronPc,
                 cronRuns, tronLiveOn, ethPasses, tronPasses, pageVars,
                 normVars, resyncVars, pollVars, otherVars, convVars>>

\* a syncAll call of the process is being awaited
EthRuns == mainPc = "ethWait" \/ (mainPc = "started" /\ cronPc = "ethWait")
TronRuns == mainPc = "tronWait" \/ (mainPc = "started" /\ cronPc = "tronWait")

\* ethereum/sync.js lines 63-142 inside the awaited syncAll
MainEthStep ==
  /\ EthRuns
  /\ IF pc = "idle"
       THEN StartPass
       ELSE ReadHead \/ FetchOk \/ UpsertStep \/ CursorWrite

MainEthThrow ==
  /\ EthRuns
  /\ Throw

\* tron/sync.js lines 351-420 inside the awaited syncAll
MainTronStep ==
  /\ TronRuns
  /\ IF tronPc = "idle"
       THEN TronStart
       ELSE TronReadHead \/ TronFetchWindow \/ TronFetchOk \/ TronUpsertStep
              \/ TronCursorWrite

MainTronThrow ==
  /\ TronRuns
  /\ TronThrow

\* the chains grow while the process runs
MainMine ==
  /\ mainPc \notin {"off", "exited"}
  /\ MineBetween

MainTronMine ==
  /\ mainPc \notin {"off", "exited"}
  /\ TronMine

\* the chains as the process finds them: blocks mined before its first call.
\* A block mined later lies past the head an initial pass reads or is read
\* as one mined before.
EntryMine ==
  /\ mainPc = "ethCall"
  /\ MineBetween

EntryTronMine ==
  /\ mainPc = "ethCall"
  /\ TronMine

(***************************************************************************)
(* The normaliser alone: one address, emitted by the USDT contract (in     *)
(* data) and by the USDC contract (in topics[1]) with the add or remove    *)
(* signature of each; each log is handled as the live handler does.        *)
(***************************************************************************)
HexChars == {"a", "A", "1", "F"}

\* 40 hex digits, the last SeedLen of them drawn
AddressDigits(seed) == <<"d", "A">> \o [i \in 1..(38 - Len(seed)) |-> "5"] \o seed

\* constants.js lines 40-48 and sync.js lines 146, 156: the signatures
\* configured for a token
SigOf(token, kind) ==
  CASE token = "USDT" /\ kind = "add" -> EVENTS.ADDED_BLACKLIST
    [] token = "USDT" /\ kind = "remove" -> EVENTS.REMOVED_BLACKLIST
    [] token = "USDC" /\ kind = "add" -> EVENTS.BLACKLISTED
    [] token = "USDC" /\ kind = "remove" -> EVENTS.UNBLACKLISTED

NormBlock == USDT_DEPLOYMENT_BLOCK + 1

\* sync.js lines 184-188 (USDT) and 197-201 (USDC): processLog, then
\* upsertBlacklistEntry
NormalizeUsdt ==
  /\ normKind \in {"add", "remove"}
  /\ "USDT" \notin normDone
  /\ LET log == RawUsdtLog(NormBlock, normWord, SigOf("USDT", normKind))
     IN /\ ~processLogThrows(log, "USDT")
        /\ blacklist' = upsertBlacklistEntry(blacklist, processLog(log, "USDT"), now)
  /\ normDone' = normDone \cup {"USDT"}
  /\ UNCHANGED <<sync_status, now, ethVars, passVars, liveVars, histVars,
                 tronVars, batchVars, rangeVars, mainVars, pageVars,
                 normWord, normKind, normSeen, resyncVars, pollVars,
                 otherVars, convVars>>

NormalizeUsdc ==
  /\ normKind \in {"add", "remove"}
  /\ "USDC" \notin normDone
  /\ LET log == RawUsdcLog(NormBlock, normWord, SigOf("USDC", normKind))
     IN /\ ~processLogThrows(log, "USDC")
        /\ blacklist' = upsertBlacklistEntry(blacklist, processLog(log, "USDC"), now)
  /\ normDone' = normDone \cup {"USDC"}
  /\ UNCHANGED <<sync_status, now, ethVars, passVars, liveVars, histVars,
                 tronVars, batchVars, rangeVars, mainVars, pageVars,
                 normWord, normKind, normSeen, resyncVars, pollVars,
                 otherVars, convVars>>

\* the topic0 values a log handed to processLog may carry
ObservedSignatures == {EVENTS.ADDED_BLACKLIST, EVENTS.REMOVED_BLACKLIST,
                       EVENTS.BLACKLISTED, EVENTS.UNBLACKLISTED}

\* the event names an event handed to processEvent may carry; the TRON USDT
\* contract also emits DestroyedBlackFunds
ObservedNames == {"AddedBlackList", "RemovedBlackList", "DestroyedBlackFunds"}

\* processLog and upsertBlacklistEntry on a log of the token with any of the
\* signatures
NormalizeObserved ==
  \E token \in {"USDT", "USDC"}, sig \in ObservedSignatures :
    /\ token \notin normDone
    /\ LET log == IF token = "USDT" THEN RawUsdtLog(NormBlock, normWord, sig)
                                    ELSE RawUsdcLog(NormBlock, normWord, sig)
       IN /\ ~processLogThrows(log, token)
          /\ blacklist' = upsertBlacklistEntry(blacklist, processLog(log, token), now)
    /\ normDone' = normDone \cup {token}
    /\ normSeen' = normSeen \cup {<<"ETHEREUM", token, sig>>}
    /\ UNCHANGED <<sync_status, now, ethVars, passVars, liveVars, histVars,
                   tronVars, batchVars, rangeVars, mainVars, pageVars,
                   normWord, normKind, resyncVars, pollVars, otherVars,
                   convVars>>

\* tron/sync.js lines 481-486: processEvent and upsertBlacklistEntry on an
\* event of the USDT contract with any of the names
NormalizeTronObserved ==
  \E user \in TronAddresses, name \in ObservedNames :
    /\ "TRON" \notin normDone
    /\ blacklist' = upsertBlacklistEntry(blacklist,
                                         processEvent(TronEvent(1, user, name), "USDT"), now)
    /\ normDone' = normDone \cup {"TRON"}
    /\ normSeen' = normSeen \cup {<<"TRON", "USDT", name>>}
    /\ UNCHANGED <<sync_status, now, ethVars, passVars, liveVars, histVars,
                   tronVars, batchVars, rangeVars, mainVars, pageVars,
                   normWord, normKind, resyncVars, pollVars, otherVars,
                   convVars>>


(***************************************************************************)
(* One raw event handled by the live path and by the backfill path of its  *)
(* source: the live handler writes it to blacklist, a pass whose window    *)
(* holds only that event writes it to onceStore.                           *)
(***************************************************************************)
EventSources == {"USDT", "USDC", "TRON"}

\* the TRON event of the kind drawn, of one of the two addresses
TronEventOf(word, kind) ==
  TronEvent(1, IF word[Len(word)] \in {"a", "A"} THEN "TAbc" ELSE "TXyz",
            IF kind = "add" THEN "AddedBlackList" ELSE "RemovedBlackList")

\* ethereum/sync.js lines 100, 186, 199 and tron/sync.js lines 395, 485: the
\* normaliser of the source on its raw event
NormalizedEvent(source) ==
  CASE source = "USDT" ->
         processLog(RawUsdtLog(NormBlock, normWord, SigOf("USDT", normKind)), "USDT")
    [] source = "USDC" ->
         processLog(RawUsdcLog(NormBlock, normWord, SigOf("USDC", normKind)), "USDC")
    [] source = "TRON" ->
         processEvent(TronEventOf(normWord, normKind), "USDT")

\* ethereum/sync.js lines 184-188, 197-201, tron/sync.js lines 481-486: the
\* live handler
LiveHandles ==
  \E source \in EventSources :
    /\ normDone = {} /\ normSeen \subseteq {source}
    /\ blacklist' = upsertBlacklistEntry(blacklist, NormalizedEvent(source), now)
    /\ normDone' = normDone \cup {source}
    /\ UNCHANGED <<sync_status, now, ethVars, passVars, liveVars, histVars,
                   tronVars, batchVars, rangeVars, mainVars, pageVars,
                   normWord, normKind, normSeen, resyncVars, pollVars,
                   otherVars, convVars>>

\* ethereum/sync.js lines 96-105, tron/sync.js lines 389-407: the entries of
\* a window that holds the one event, given to batchUpsertBlacklistEntries
BackfillHandles ==
  \E source \in EventSources :
    /\ normSeen = {} /\ normDone \subseteq {source}
    /\ LET batch == <<NormalizedEvent(source)>>
       IN /\ onceStore' = batchUpsertBlacklistEntries(onceStore, batch, now)
          /\ lastBatch' = batch
    /\ normSeen' = normSeen \cup {source}
    /\ UNCHANGED <<storeVars, ethVars, passVars, liveVars, histVars,
                   tronVars, reapplied, rangeVars, mainVars, pageVars,
                   normWord, normKind, normDone, resyncVars, pollVars,
                   otherVars, convVars>>

(***************************************************************************)
(* Live mode of the process: the Ethereum subscription handlers and the    *)
(* TRON poll timer, after main has started them.                           *)
(***************************************************************************)
\* the Ethereum chain grows and the subscription delivers the new log
ListenMine ==
  /\ mainPc = "started"
  /\ liveOn
  /\ Mine

\* ethereum/sync.js lines 184-188: a 'data' handler runs to its end
ListenUpsert ==
  /\ mainPc = "started"
  /\ LiveUpsert

\* ethereum/sync.js lines 184-188 (and 197-201): the async 'data' handler
\* has no try/catch and nothing awaits it; when getBlock (line 50) or
\* upsertBlacklistEntry rejects, the handler's promise is rejected with no
\* handler.  No 'unhandledRejection' listener is registered, so the Node 18
\* runtime of the Dockerfile ends the process with code 1; the database is
\* not closed.
LiveHandlerThrow ==
  /\ mainPc = "started"
  /\ aborts < MaxAborts
  /\ liveInFlight # {}
  /\ aborts' = aborts + 1
  /\ mainPc' = "exited"
  /\ exitCode' = 1
  /\ liveOn' = FALSE
  /\ tronLiveOn' = FALSE
  /\ liveInFlight' = {}
  /\ UNCHANGED <<storeVars, ethVars, passVars, windows, sizeErrors,
                 lastShrink, passCursor0, runStore0, runCursor0,
                 interrupted, failedFrom, failedTo, written,
                 liveSinceStart, tronVars, batchVars, rangeVars,
                 entryPoint, args, cronPc, cronRuns, dbOpen, ethPasses,
                 tronPasses, signalled, pageVars, normVars, resyncVars,
                 pollVars, otherVars, convVars>>

\* the TRON chain grows between two callbacks of the poll timer
ListenPollMine ==
  /\ mainPc = "started"
  /\ tronLiveOn
  /\ PollMine

\* tron/sync.js line 494: the timer runs pollForEvents
ListenPoll ==
  /\ mainPc = "started"
  /\ tronLiveOn
  /\ PollForEvents

\* tron/sync.js lines 488-490: the callback's catch takes the error
ListenPollError ==
  /\ mainPc = "started"
  /\ tronLiveOn
  /\ PollError

(***************************************************************************)
(* A second syncToken call of the same EthereumSync instance.  syncAll     *)
(* starts syncUSDT and syncUSDC side by side (lines 168-171), and the      *)
(* timer callbacks (ethereum/sync.js lines 232-234, index.js lines 57-75)  *)
(* call syncAll whether or not the call before has returned.  The second   *)
(* call has its own locals and shares this.chunkSize and the store.        *)
(***************************************************************************)
\* ethereum/sync.js lines 149, 159: the startBlock of the token's pass
StartBlockOf(token) ==
  IF token = "USDT" THEN USDT_DEPLOYMENT_BLOCK ELSE USDC_DEPLOYMENT_BLOCK

\* the cursors an earlier run left for both tokens, past both deployments
TokensCursor == USDC_DEPLOYMENT_BLOCK + 100

\* the blacklist logs of the USDC contract: one, after that cursor
UsdcLogs ==
  <<RawUsdcLog(TokensCursor + 5, AbiWord(AddressDigits(<<"a", "1">>)),
               EVENTS.BLACKLISTED)>>

\* web3.eth.getPastLogs for the contract of the token
getPastLogsOf(token, from, to) ==
  IF token = "USDT"
    THEN getPastLogs(from, to)
    ELSE SelectSeq(UsdcLogs, LAMBDA l : from <= l.blockNumber.value
                                         /\ l.blockNumber.value <= to)

InFlightB == pcB \in {"head", "fetch", "upsert", "cursor"}

\* lines 65-71
StartPassB(token, flag) ==
  /\ pcB \in {"idle", "done"}
  /\ tokenB' = token
  /\ LET lastSyncedBlock == getLastSyncedBlock("ETHEREUM", token)
     IN fromBlockB' = IF flag THEN StartBlockOf(token)
                      ELSE safeMax(NumberOf(lastSyncedBlock + 1),
                                   NumberOf(StartBlockOf(token)))
  /\ blacklist' = IF flag THEN clearBlacklistData(blacklist, "ETHEREUM", token)
                          ELSE blacklist
  /\ pcB' = "head"
  /\ windowsB' = <<>>
  /\ latestBlockB' = 0
  /\ UNCHANGED <<sync_status, now, ethVars, passVars, liveVars, histVars,
                 tronVars, batchVars, rangeVars, mainVars, pageVars,
                 normVars, resyncVars, pollVars, batchEndB, currentBlockB,
                 toBlockB, entriesB, idxB, batchNowB, sizeErrorsB,
                 convVars>>

\* lines 72-83
ReadHeadB ==
  /\ pcB = "head"
  /\ LET latest == safeToNumber(BigIntOf(ethHead))
     IN /\ latestBlockB' = latest
        /\ IF fromBlockB <= latest
             THEN /\ batchEndB' = BatchEndOf(fromBlockB, latest)
                  /\ currentBlockB' = fromBlockB
                  /\ pcB' = "fetch"
             ELSE /\ UNCHANGED <<batchEndB, currentBlockB>>
                  /\ pcB' = "done"
  /\ UNCHANGED <<storeVars, ethVars, passVars, liveVars, histVars,
                 tronVars, batchVars, rangeVars, mainVars, pageVars,
                 normVars, resyncVars, pollVars, tokenB, fromBlockB,
                 toBlockB, entriesB, idxB, batchNowB, windowsB,
                 sizeErrorsB, convVars>>

\* lines 84-103: the window is cut with this.chunkSize as it is now
FetchOkB ==
  /\ pcB = "fetch"
  /\ LET to == WindowEnd(currentBlockB, chunkSize, batchEndB)
         logs == getPastLogsOf(tokenB, currentBlockB, to)
     IN /\ \A i \in 1..Len(logs) : ~processLogThrows(logs[i], tokenB)
        /\ toBlockB' = to
        /\ entriesB' = [i \in 1..Len(logs) |-> processLog(logs[i], tokenB)]
        /\ windowsB' = Append(windowsB, <<currentBlockB, to>>)
        /\ pcB' = IF Len(logs) > 0 THEN "upsert" ELSE "cursor"
  /\ idxB' = 1
  /\ UNCHANGED <<storeVars, ethVars, passVars, liveVars, histVars,
                 tronVars, batchVars, rangeVars, mainVars, pageVars,
                 normVars, resyncVars, pollVars, tokenB, fromBlockB,
                 latestBlockB, batchEndB, currentBlockB, batchNowB,
                 sizeErrorsB, convVars>>

\* lines 115-128: a size-limit error of this call's request halves
\* this.chunkSize
FetchSizeLimitB ==
  /\ pcB = "fetch"
  /\ sizeErrorsB < MaxSizeErrors
  /\ chunkSize' = ShrinkChunk(chunkSize)
  /\ sizeErrorsB' = Min(sizeErrorsB + 1, MaxSizeErrors)
  /\ lastShrink' = <<chunkSize, chunkSize'>>
  /\ UNCHANGED <<storeVars, ethVars, configChunk, pc, fromBlock,
                 latestBlock, batchStart, batchEnd, currentBlock, toBlock,
                 entries, idx, batchNow, liveVars, windows, sizeErrors,
                 passCursor0, runStore0, runCursor0, interrupted, aborts,
                 failedFrom, failedTo, written, liveSinceStart, tronVars,
                 batchVars, rangeVars, mainVars, pageVars, normVars,
                 resyncVars, pollVars, tokenB, pcB, fromBlockB,
                 latestBlockB, batchEndB, currentBlockB, toBlockB,
                 entriesB, idxB, batchNowB, windowsB, convVars>>

\* database.js lines 85-99
UpsertStepB ==
  /\ pcB = "upsert"
  /\ LET t == IF idxB = 1 THEN now ELSE batchNowB
     IN /\ batchNowB' = t
        /\ blacklist' = UpsertRow(blacklist, entriesB[idxB], t)
  /\ written' = written \cup {entriesB[idxB].transaction_hash}
  /\ IF idxB = Len(entriesB)
       THEN pcB' = "cursor" /\ idxB' = 1
       ELSE pcB' = "upsert" /\ idxB' = idxB + 1
  /\ UNCHANGED <<sync_status, now, ethVars, passVars, liveVars, windows,
                 sizeErrors, lastShrink, passCursor0, runStore0,
                 runCursor0, interrupted, aborts, failedFrom, failedTo,
                 liveSinceStart, tronVars, batchVars, rangeVars, mainVars,
                 pageVars, normVars, resyncVars, pollVars, tokenB,
                 fromBlockB, latestBlockB, batchEndB, currentBlockB,
                 toBlockB, entriesB, windowsB, sizeErrorsB, convVars>>

\* lines 109-113, 83, 133, 79
CursorWriteB ==
  /\ pcB = "cursor"
  /\ sync_status' = updateSyncStatus(sync_status, "ETHEREUM", tokenB,
                                     CursorValue(toBlockB, latestBlockB))
  /\ LET next == NextBlock(toBlockB)
     IN IF next <= batchEndB
          THEN /\ currentBlockB' = next
               /\ pcB' = "fetch"
               /\ UNCHANGED <<batchEndB, toBlockB, entriesB, idxB, batchNowB>>
          ELSE IF batchEndB + 1 <= latestBlockB
                 THEN /\ batchEndB' = BatchEndOf(batchEndB + 1, latestBlockB)
                      /\ currentBlockB' = batchEndB + 1
                      /\ pcB' = "fetch"
                      /\ UNCHANGED <<toBlockB, entriesB, idxB, batchNowB>>
                 ELSE /\ batchEndB' = 0 /\ currentBlockB' = 0 /\ toBlockB' = 0
                      /\ entriesB' = <<>> /\ idxB' = 1 /\ batchNowB' = 0
                      /\ pcB' = "done"
  /\ UNCHANGED <<blacklist, now, ethVars, passVars, liveVars, histVars,
                 tronVars, batchVars, rangeVars, mainVars, pageVars,
                 normVars, resyncVars, pollVars, tokenB, fromBlockB,
                 latestBlockB, windowsB, sizeErrorsB, convVars>>

(***************************************************************************)
(* The periodic timer of live mode.  setInterval and cron.schedule run the *)
(* callback at every period; the callback's await of syncAll holds back    *)
(* only the rest of that callback.  Two calls at most are in flight in the *)
(* model.                                                                  *)
(***************************************************************************)
\* the callback runs while no pass is in flight
TimerStart ==
  /\ mainPc = "started"
  /\ ~InFlight
  /\ StartPass

\* the callback runs while the pass of an earlier callback is in flight
TimerStartOverlapping ==
  /\ mainPc = "started"
  /\ InFlight
  /\ StartPassB(tokenSymbol, ScheduledFlag)

TimerPassStep ==
  /\ mainPc = "started"
  /\ ReadHead \/ FetchOk \/ UpsertStep \/ CursorWrite

TimerPassStepOverlapping ==
  /\ mainPc = "started"
  /\ ReadHeadB \/ FetchOkB \/ UpsertStepB \/ CursorWriteB

\* the chain grows while no pass is in flight
TimerMine ==
  /\ mainPc = "started"
  /\ ~InFlightB
  /\ MineBetween

\* ethereum/sync.js lines 211-225: the driver module is started again after
\* it ended with an error, this time without --full-sync: a new process and
\* a new EthereumSync instance on the database the last one left
RestartWithoutFlag ==
  /\ entryPoint = "ethereum"
  /\ mainPc = "exited"
  /\ exitCode = 1
  /\ isFullSync(args)
  /\ args' \in {<<>>, <<"--once">>}
  /\ mainPc' = "ethCall"
  /\ exitCode' = -1
  /\ dbOpen' = TRUE
  /\ pc' = "idle"
  /\ chunkSize' = configChunk
  /\ UNCHANGED <<storeVars, ethVars, configChunk, fromBlock, latestBlock,
                 batchStart, batchEnd, currentBlock, toBlock, entries, idx,
                 batchNow, liveVars, histVars, tronVars, batchVars,
                 rangeVars, entryPoint, cronPc, cronRuns, tronLiveOn,
                 ethPasses, tronPasses, signalled, pageVars, normVars,
                 resyncVars, pollVars, otherVars, convVars>>
(***************************************************************************)
(* The store alone: single writes build a table, then one batch is given   *)
(* to batchUpsertBlacklistEntries and given again.                         *)
(***************************************************************************)
StoreBlocks == {USDT_DEPLOYMENT_BLOCK + 1, USDT_DEPLOYMENT_BLOCK + 2}

\* normalised entries; AB and ab are one address in two casings
EntriesOf(tails) ==
  {processLog(UsdtLog(b, tail, sig), "USDT") :
     b \in StoreBlocks, tail \in tails, sig \in Signatures}

BatchesOf(E) == UNION {[1..n -> E] : n \in 1..MaxBatchLen}

\* upsertBlacklistEntry(entry) on a table no batch was given to yet
StoreUpsert ==
  /\ lastBatch = <<>>
  /\ \E entry \in EntriesOf({<<"A", "B">>}) :
       blacklist' = UpsertRow(blacklist, entry, now)
  /\ UNCHANGED <<sync_status, now, ethVars, passVars, liveVars, histVars,
                 tronVars, batchVars, rangeVars, mainVars, pageVars,
                 normVars, resyncVars, pollVars, otherVars, convVars>>

StoreApply ==
  /\ lastBatch = <<>>
  /\ \E batch \in BatchesOf(EntriesOf({<<"a", "b">>, <<"c", "d">>})) :
       /\ blacklist' = batchUpsertBlacklistEntries(blacklist, batch, now)
       /\ lastBatch' = batch
  /\ onceStore' = blacklist'
  /\ UNCHANGED <<sync_status, now, ethVars, passVars, liveVars, histVars,
                 tronVars, reapplied, rangeVars, mainVars, pageVars,
                 normVars, resyncVars, pollVars, otherVars, convVars>>

StoreReapply ==
  /\ lastBatch # <<>>
  /\ blacklist' = batchUpsertBlacklistEntries(blacklist, lastBatch, now)
  /\ reapplied' = TRUE
  /\ UNCHANGED <<sync_status, now, ethVars, passVars, liveVars, histVars,
                 tronVars, lastBatch, onceStore, rangeVars, mainVars,
                 pageVars, normVars, resyncVars, pollVars, otherVars,
                 convVars>>

(***************************************************************************)
(* getContractEvents alone: one call with arguments drawn at the start.    *)
(***************************************************************************)
ApplyRanges ==
  /\ rangeResult = <<>>
  /\ rangeResult' = RangesOf(rangeMin, rangeMax)
  /\ UNCHANGED <<storeVars, ethVars, passVars, liveVars, histVars,
                 tronVars, batchVars, rangeMin, rangeMax, mainVars,
                 pageVars, normVars, resyncVars, pollVars, otherVars,
                 convVars>>

(***************************************************************************)
(* A provider that serves a request of at most rpcLimit blocks and rejects *)
(* a larger one as too large, every time.  The request of line 89 and its  *)
(* answer are two steps.                                                   *)
(***************************************************************************)
RpcLimits == {40, 1000, 200000}

SpanAsked == WindowEnd(currentBlock, chunkSize, batchEnd) - currentBlock + 1

FetchRequest ==
  /\ pc = "fetch"
  /\ pc' = "asked"
  /\ UNCHANGED <<storeVars, ethVars, configChunk, chunkSize, fromBlock,
                 latestBlock, batchStart, batchEnd, currentBlock, toBlock,
                 entries, idx, batchNow, liveVars, histVars, tronVars,
                 batchVars, rangeVars, mainVars, pageVars, normVars,
                 resyncVars, pollVars, otherVars, convVars>>

FetchServed ==
  /\ pc = "asked"
  /\ SpanAsked <= rpcLimit
  /\ Fetched

FetchRejected ==
  /\ pc = "asked"
  /\ SpanAsked > rpcLimit
  /\ HandleSizeLimit

(***************************************************************************)
(* Initial states.                                                         *)
(***************************************************************************)
InitStore ==
  /\ blacklist = <<>>
  /\ sync_status = <<>>
  /\ now = 0
  /\ written = {}
  /\ aborts = 0
  /\ mined = 0

EthPassInit ==
  /\ fromBlock = 0 /\ latestBlock = 0 /\ batchStart = 0 /\ batchEnd = 0
  /\ currentBlock = 0 /\ toBlock = 0
  /\ entries = <<>> /\ idx = 1 /\ batchNow = 0
  /\ liveOn = FALSE /\ liveInFlight = {}
  /\ windows = <<>> /\ sizeErrors = 0 /\ lastShrink = <<>> /\ passCursor0 = 0
  /\ runStore0 = <<>> /\ runCursor0 = 0 /\ interrupted = FALSE
  /\ failedFrom = 0 /\ failedTo = 0 /\ liveSinceStart = FALSE
  /\ forceFullSync = FALSE
  /\ tokenB = "none" /\ pcB = "idle"
  /\ fromBlockB = 0 /\ latestBlockB = 0 /\ batchEndB = 0 /\ currentBlockB = 0
  /\ toBlockB = 0 /\ entriesB = <<>> /\ idxB = 1 /\ batchNowB = 0
  /\ windowsB = <<>> /\ sizeErrorsB = 0

EthLocalsInit == ethLogs = <<>> /\ EthPassInit

\* a service started on an empty database, the head past the deployment block
InitEth(limits) ==
  /\ \E cfg \in Configs :
       /\ configChunk = cfg.chunk
       /\ chunkSize = cfg.chunk
       /\ ethHead = USDT_DEPLOYMENT_BLOCK + cfg.first
  /\ rpcLimit \in limits
  /\ pc = "idle"
  /\ EthLocalsInit

EthOff ==
  /\ configChunk = DefaultChunkSize
  /\ chunkSize = DefaultChunkSize
  /\ ethHead = USDT_DEPLOYMENT_BLOCK
  /\ rpcLimit = 0
  /\ pc = "off"
  /\ EthLocalsInit

TronLocalsInit ==
  /\ tronLastSyncedBlock = 0 /\ currentBlockNumber = 0 /\ currentTimestamp = 0
  /\ fromTimestamp = 0 /\ tronEntries = <<>> /\ tronIdx = 1 /\ tronBatchNow = 0
  /\ tronWindows = <<>> /\ tronFetched = {}
  /\ tronForceFullSync = FALSE
  /\ polls = 0 /\ pollWindows = <<>>

\* a service started on an empty database; the contract may have emitted an
\* event long before (block 1)
InitTron ==
  /\ tronHead = TronFirstHead
  /\ \/ tronEvents = <<>>
     \/ \E user \in TronAddresses :
          tronEvents = <<TronEvent(1, user, "AddedBlackList")>>
  /\ tronPc = "idle"
  /\ TronLocalsInit

TronOff ==
  /\ tronHead = 0
  /\ tronEvents = <<>>
  /\ tronPc = "off"
  /\ TronLocalsInit

NotConverted == [op |-> "none", threw |-> FALSE, value |-> 0]

ConvOff == convArg = NumberOf(0) /\ convArg2 = NumberOf(0) /\ convOut = NotConverted

\* the store alone and the converters alone are not run
BatchOff == lastBatch = <<>> /\ onceStore = <<>> /\ reapplied = FALSE /\ ConvOff

RangesOff == rangeMin = 0 /\ rangeMax = 0 /\ rangeResult = <<>>

NormOff == normWord = <<>> /\ normKind = "none" /\ normDone = {} /\ normSeen = {}

PageLocalsInit ==
  /\ fingerprint = 0 /\ pageEvents = <<>> /\ requests = <<>> /\ pageLast = <<>>
  /\ tokenWithheld = FALSE

PageOff == pageHeld = 0 /\ pagePc = "off" /\ PageLocalsInit

MainLocalsInit ==
  /\ cronPc = "idle" /\ cronRuns = 0 /\ dbOpen = TRUE /\ exitCode = -1
  /\ tronLiveOn = FALSE /\ ethPasses = 0 /\ tronPasses = 0 /\ signalled = FALSE

MainOff == entryPoint = "none" /\ args = <<>> /\ mainPc = "off" /\ MainLocalsInit

(***************************************************************************)
(* Spec: backfill passes of the Ethereum driver, one after the other,      *)
(* against a growing chain and a provider that may reject any request as   *)
(* too large.                                                              *)
(***************************************************************************)
Init == InitStore /\ InitEth({0}) /\ TronOff /\ BatchOff /\ RangesOff /\ MainOff /\ PageOff /\ NormOff

Next ==
  \/ MineBetween
  \/ StartPass
  \/ ReadHead
  \/ FetchOk
  \/ FetchSizeLimit
  \/ UpsertStep
  \/ CursorWrite

Spec == Init /\ [][Next]_vars

(***************************************************************************)
(* SpecCrash: the same passes, ended at any await by a thrown error or by  *)
(* the death of the process, and started again.                            *)
(***************************************************************************)
NextCrash ==
  \/ MineBetween
  \/ StartPass
  \/ ReadHead
  \/ FetchOk
  \/ UpsertStep
  \/ CursorWrite
  \/ Throw
  \/ Crash

SpecCrash == Init /\ [][NextCrash]_vars

(***************************************************************************)
(* SpecLive: the subscription of liveSync next to the periodic passes.     *)
(***************************************************************************)
NextLive ==
  \/ Mine
  \/ StartPass
  \/ ReadHead
  \/ FetchOk
  \/ UpsertStep
  \/ CursorWrite
  \/ LiveStart
  \/ LiveUpsert

SpecLive == Init /\ [][NextLive]_vars

(***************************************************************************)
(* SpecShrink: passes against the provider with a fixed limit.  The event  *)
(* loop runs every continuation that is ready, hence weak fairness of the  *)
(* steps of the pass.                                                      *)
(***************************************************************************)
InitShrink == InitStore /\ InitEth(RpcLimits) /\ TronOff /\ BatchOff /\ RangesOff /\ MainOff /\ PageOff /\ NormOff

PassShrink ==
  \/ StartPass
  \/ ReadHead
  \/ FetchRequest
  \/ FetchServed
  \/ FetchRejected
  \/ UpsertStep
  \/ CursorWrite

NextShrink ==
  \/ MineBetween
  \/ PassShrink

SpecShrink == InitShrink /\ [][NextShrink]_vars /\ WF_vars(PassShrink)

(***************************************************************************)
(* SpecStore: the store alone.                                             *)
(***************************************************************************)
InitAlone == InitStore /\ EthOff /\ TronOff /\ BatchOff /\ RangesOff /\ MainOff /\ PageOff /\ NormOff

NextStore ==
  \/ StoreUpsert
  \/ StoreApply
  \/ StoreReapply
  \/ Tick

SpecStore == InitAlone /\ [][NextStore]_vars

(***************************************************************************)
(* SpecRanges: getContractEvents alone.                                    *)
(***************************************************************************)
InitRanges ==
  /\ InitStore /\ EthOff /\ TronOff /\ BatchOff /\ MainOff /\ PageOff /\ NormOff
  /\ rangeMin \in 0..MaxTimestamp
  /\ rangeMax \in rangeMin..MaxTimestamp
  /\ rangeResult = <<>>

SpecRanges == InitRanges /\ [][ApplyRanges]_vars

(***************************************************************************)
(* SpecTron: backfill passes of the TRON driver.                           *)
(***************************************************************************)
InitTronSpec == InitStore /\ EthOff /\ InitTron /\ BatchOff /\ RangesOff /\ MainOff /\ PageOff /\ NormOff

NextTron ==
  \/ TronMine
  \/ TronStart
  \/ TronReadHead
  \/ TronFetchWindow
  \/ TronFetchOk
  \/ TronUpsertStep
  \/ TronCursorWrite
  \/ TronThrow

SpecTron == InitTronSpec /\ [][NextTron]_vars

(***************************************************************************)
(* SpecMalformed: backfill passes against a provider that also returns     *)
(* logs processLog rejects.                                                *)
(***************************************************************************)
NextMalformed ==
  \/ MineBetween
  \/ MineMalformed
  \/ StartPass
  \/ ReadHead
  \/ FetchOk
  \/ FetchMalformed
  \/ UpsertStep
  \/ CursorWrite

SpecMalformed == Init /\ [][NextMalformed]_vars

(***************************************************************************)
(* SpecFetchError: one chain's backfill passes against a provider whose    *)
(* fetch may fail, with a size-limit error (Ethereum) or with any other    *)
(* error.                                                                  *)
(***************************************************************************)
\* either chain alone; the Ethereum driver with the default CHUNK_SIZE
InitFetchError ==
  \/ Init /\ configChunk = DefaultChunkSize
  \/ InitTronSpec

NextFetchError ==
  \/ MineBetween
  \/ StartPass
  \/ ReadHead
  \/ FetchOk
  \/ FetchSizeLimit
  \/ FetchError
  \/ UpsertStep
  \/ CursorWrite
  \/ TronMine
  \/ TronStart
  \/ TronReadHead
  \/ TronFetchWindow
  \/ TronFetchOk
  \/ TronFetchError
  \/ TronUpsertStep
  \/ TronCursorWrite

SpecFetchError == InitFetchError /\ [][NextFetchError]_vars

(***************************************************************************)
(* SpecMain: one process, started as index.js or as a driver module, with  *)
(* the command lines of the README and package.json and those that hold    *)
(* --once alone or first.                                                  *)
(***************************************************************************)
IndexArgs == {<<>>, <<"ethereum">>, <<"tron">>, <<"--once">>,
              <<"all", "--once">>, <<"ethereum", "--once">>, <<"--once", "tron">>}

DriverArgs == {<<>>, <<"--once">>}

InitMain ==
  /\ InitStore /\ BatchOff /\ RangesOff /\ MainLocalsInit /\ PageOff /\ NormOff
  /\ mainPc = "ethCall"
  /\ \/ /\ entryPoint = "index" /\ args \in IndexArgs
        /\ InitEth({0}) /\ configChunk = DefaultChunkSize
        /\ InitTron
     \/ /\ entryPoint = "ethereum" /\ args \in DriverArgs
        /\ InitEth({0}) /\ configChunk = DefaultChunkSize
        /\ TronOff
     \/ /\ entryPoint = "tron" /\ args \in DriverArgs
        /\ EthOff
        /\ InitTron

NextMain ==
  \/ MainEthCall
  \/ MainEthReturned
  \/ MainTronCall
  \/ MainTronReturned
  \/ MainCatch
  \/ MainAfterSync
  \/ CronFire
  \/ CronEthCall
  \/ CronEthReturned
  \/ CronTronCall
  \/ CronTronReturned
  \/ CronCatch
  \/ Signal
  \/ MainEthStep
  \/ MainEthThrow
  \/ MainTronStep
  \/ MainTronThrow
  \/ MainMine
  \/ MainTronMine

SpecMain == InitMain /\ [][NextMain]_vars

(***************************************************************************)
(* SpecEntry: the process from its start to the start of live mode or its  *)
(* exit.                                                                   *)
(***************************************************************************)
NextEntry ==
  \/ MainEthCall
  \/ MainEthReturned
  \/ MainTronCall
  \/ MainTronReturned
  \/ MainCatch
  \/ MainAfterSync
  \/ MainEthStep
  \/ MainEthThrow
  \/ MainTronStep
  \/ MainTronThrow
  \/ EntryMine
  \/ EntryTronMine

SpecEntry == InitMain /\ [][NextEntry]_vars

(***************************************************************************)
(* SpecResync: a driver module started, with or without --full-sync, on    *)
(* the database an earlier run left: empty, or holding the record of an    *)
(* event of the chain and the cursor of that run.  index.js is started     *)
(* with the same flag, which it does not read.  Every request and every    *)
(* store write succeeds.                                                   *)
(***************************************************************************)
ResyncArgs == {<<>>, <<"--full-sync">>, <<"--once", "--full-sync">>}

SeedBlock == USDT_DEPLOYMENT_BLOCK + 1
SeedLog == UsdtLog(SeedBlock, <<"A", "B">>, EVENTS.ADDED_BLACKLIST)
SeedEvent == TronEvent(1, "TAbc", "AddedBlackList")

\* the Ethereum chain holds the seed log; an earlier run may have stored it
EthSeeded ==
  /\ configChunk = DefaultChunkSize
  /\ chunkSize = DefaultChunkSize
  /\ ethHead = USDT_DEPLOYMENT_BLOCK + 12000
  /\ rpcLimit = 0
  /\ pc = "idle"
  /\ ethLogs = <<SeedLog>>
  /\ EthPassInit

\* the TRON chain holds the seed event, older than the year a pass looks
\* back; an earlier run may have stored it
TronSeeded ==
  /\ tronHead = TronFirstHead
  /\ tronEvents = <<SeedEvent>>
  /\ tronPc = "idle"
  /\ TronLocalsInit

InitResync ==
  /\ now = 1 /\ written = {} /\ aborts = 0 /\ mined = 0
  /\ BatchOff /\ RangesOff /\ MainLocalsInit /\ PageOff /\ NormOff
  /\ mainPc = "ethCall"
  /\ \/ /\ \/ entryPoint = "ethereum" /\ args \in ResyncArgs
        /\ EthSeeded /\ TronOff
        /\ \/ blacklist = <<>> /\ sync_status = <<>>
           \/ /\ blacklist = UpsertRow(<<>>, processLog(SeedLog, "USDT"), 0)
              /\ sync_status = updateSyncStatus(<<>>, "ETHEREUM", "USDT", SeedBlock + 1)
     \/ /\ \/ entryPoint = "tron" /\ args \in ResyncArgs
           \/ entryPoint = "index" /\ args = <<"tron", "--full-sync">>
        /\ EthOff /\ TronSeeded
        /\ \/ blacklist = <<>> /\ sync_status = <<>>
           \/ /\ blacklist = UpsertRow(<<>>, processEvent(SeedEvent, "USDT"), 0)
              /\ sync_status = updateSyncStatus(<<>>, "TRON", "USDT", 4)

\* the chains grow before the process is started and between the start of
\* live mode and the first scheduled pass
ResyncMineTime ==
  mainPc = "ethCall" \/ (mainPc = "started" /\ cronPc = "idle" /\ cronRuns = 0)

ResyncMine ==
  /\ ResyncMineTime
  /\ MineBetween

ResyncTronMine ==
  /\ ResyncMineTime
  /\ TronMine

NextResync ==
  \/ MainEthCall
  \/ MainEthReturned
  \/ MainTronCall
  \/ MainTronReturned
  \/ MainAfterSync
  \/ CronFire
  \/ CronEthCall
  \/ CronEthReturned
  \/ CronTronCall
  \/ CronTronReturned
  \/ Signal
  \/ MainEthStep
  \/ MainTronStep
  \/ ResyncMine
  \/ ResyncTronMine
  \/ LiveUpsert

SpecResync == InitResync /\ [][NextResync]_vars

(***************************************************************************)
(* SpecBatch: backfill passes in which a write of a batch may reject; the  *)
(* table is what a query issued at that moment reads.                      *)
(***************************************************************************)
NextBatch ==
  \/ MineBetween
  \/ StartPass
  \/ ReadHead
  \/ FetchOk
  \/ UpsertStep
  \/ CursorWrite
  \/ UpsertThrow

SpecBatch == Init /\ [][NextBatch]_vars

(***************************************************************************)
(* SpecScope: the passes and the live handler of one pair next to the      *)
(* records and cursors that syncs of the three other pairs have left, the  *)
(* same addresses among them.                                              *)
(***************************************************************************)
Pairs == {<<"ETHEREUM", "USDT">>, <<"ETHEREUM", "USDC">>,
          <<"TRON", "USDT">>, <<"TRON", "USDC">>}

\* the entry of the seed event of the pair's chain, as the pair's sync
\* normalises it
SeedEntry(pair) ==
  IF pair[1] = "ETHEREUM"
    THEN [processLog(UsdtLog(SeedBlock, <<"c", "d">>, EVENTS.ADDED_BLACKLIST), "USDT")
            EXCEPT !.token = pair[2]]
    ELSE [processEvent(TronEvent(1, "TXyz", "AddedBlackList"), "USDT")
            EXCEPT !.token = pair[2]]

\* the table and the cursors after the syncs of the pairs in ps
RECURSIVE LeftBy(_)
LeftBy(ps) ==
  IF ps = {} THEN [rows |-> <<>>, cursors |-> <<>>]
  ELSE LET p == CHOOSE x \in ps : TRUE
           rest == LeftBy(ps \ {p})
       IN [rows |-> UpsertRow(rest.rows, SeedEntry(p), 0),
           cursors |-> updateSyncStatus(rest.cursors, p[1], p[2],
                                        IF p[1] = "ETHEREUM" THEN SeedBlock
                                                             ELSE TronFirstHead - 1)]

InitScope ==
  /\ now = 1 /\ written = {} /\ aborts = 0 /\ mined = 0
  /\ BatchOff /\ RangesOff /\ MainOff /\ PageOff /\ NormOff
  /\ \/ /\ InitEth({0}) /\ configChunk = DefaultChunkSize /\ TronOff
        /\ blacklist = LeftBy(Pairs \ {<<"ETHEREUM", "USDT">>}).rows
        /\ sync_status = LeftBy(Pairs \ {<<"ETHEREUM", "USDT">>}).cursors
     \/ /\ EthOff /\ InitTron
        /\ blacklist = LeftBy(Pairs \ {<<"TRON", "USDT">>}).rows
        /\ sync_status = LeftBy(Pairs \ {<<"TRON", "USDT">>}).cursors

NextScope ==
  \/ Mine
  \/ StartPass
  \/ ReadHead
  \/ FetchOk
  \/ UpsertStep
  \/ CursorWrite
  \/ LiveStart
  \/ LiveUpsert
  \/ TronMine
  \/ TronStart
  \/ TronReadHead
  \/ TronFetchWindow
  \/ TronFetchOk
  \/ TronUpsertStep
  \/ TronCursorWrite

SpecScope == InitScope /\ [][NextScope]_vars

(***************************************************************************)
(* SpecOrder: backfill passes against a provider that returns the logs of  *)
(* a window in any order.                                                  *)
(***************************************************************************)
NextOrder ==
  \/ MineBetween
  \/ StartPass
  \/ ReadHead
  \/ FetchAnyOrder
  \/ UpsertStep
  \/ CursorWrite

SpecOrder == Init /\ [][NextOrder]_vars

(***************************************************************************)
(* SpecPages: one fetchEventsForRange call, for every number of events the *)
(* indexer may hold for the window.                                        *)
(***************************************************************************)
InitPages ==
  /\ InitStore /\ EthOff /\ TronOff /\ BatchOff /\ RangesOff /\ MainOff /\ NormOff
  /\ pageHeld \in 0..MaxHeld
  /\ pagePc = "loop"
  /\ PageLocalsInit

SpecPages == InitPages /\ [][PageRequest]_vars

(***************************************************************************)
(* SpecNormalize: the normaliser and the single-row write, for every       *)
(* address word and kind drawn at the start.                               *)
(***************************************************************************)
InitNormalize ==
  /\ InitStore /\ EthOff /\ TronOff /\ BatchOff /\ RangesOff /\ MainOff /\ PageOff
  /\ normWord \in {AbiWord(AddressDigits(seed)) : seed \in [1..SeedLen -> HexChars]}
  /\ normKind \in {"add", "remove"}
  /\ normDone = {}
  /\ normSeen = {}

NextNormalize ==
  \/ NormalizeUsdt
  \/ NormalizeUsdc

SpecNormalize == InitNormalize /\ [][NextNormalize]_vars

(***************************************************************************)
(* SpecDirection: the normalisers handed one event per token, with any of  *)
(* the signatures the contracts of the model emit.                         *)
(***************************************************************************)
NextDirection ==
  \/ NormalizeObserved
  \/ NormalizeTronObserved

SpecDirection == InitNormalize /\ [][NextDirection]_vars

(***************************************************************************)
(* SpecPaths: one raw event, its address word and kind drawn at the start, *)
(* handled by the live path and by the backfill path of one source at any  *)
(* two times.                                                              *)
(***************************************************************************)
NextPaths ==
  \/ LiveHandles
  \/ BackfillHandles
  \/ Tick

SpecPaths == InitNormalize /\ [][NextPaths]_vars

(***************************************************************************)
(* SpecPoll: the TRON live poll on a chain that grows between callbacks.   *)
(***************************************************************************)
InitPoll ==
  /\ InitStore /\ EthOff /\ BatchOff /\ RangesOff /\ MainOff /\ PageOff /\ NormOff
  /\ tronHead = TronFirstHead + LookBack(pollInterval)
  /\ \/ tronEvents = <<>>
     \/ tronEvents = <<TronEvent(tronHead, "TAbc", "AddedBlackList")>>
  /\ tronPc = "idle"
  /\ TronLocalsInit

NextPoll ==
  \/ PollMine
  \/ PollForEvents
  \/ PollError

SpecPoll == InitPoll /\ [][NextPoll]_vars

(***************************************************************************)
(* SpecListen: index.js or a driver module from its start into live mode;  *)
(* in live mode the chains grow, handlers and polls run and may fail.  No  *)
(* signal is sent and no scheduled pass is due.                            *)
(***************************************************************************)
InitListen ==
  /\ InitStore /\ BatchOff /\ RangesOff /\ MainLocalsInit /\ PageOff /\ NormOff
  /\ mainPc = "ethCall"
  /\ args = <<>>
  /\ \/ /\ entryPoint \in {"index", "ethereum"}
        /\ InitEth({0}) /\ configChunk = DefaultChunkSize
        /\ IF entryPoint = "index" THEN InitTron /\ tronEvents = <<>> ELSE TronOff
     \/ /\ entryPoint = "tron"
        /\ EthOff
        /\ InitTron

NextListen ==
  \/ MainEthCall
  \/ MainEthReturned
  \/ MainTronCall
  \/ MainTronReturned
  \/ MainAfterSync
  \/ MainEthStep
  \/ MainTronStep
  \/ ListenMine
  \/ ListenUpsert
  \/ LiveHandlerThrow
  \/ ListenPollMine
  \/ ListenPoll
  \/ ListenPollError

SpecListen == InitListen /\ [][NextListen]_vars

(***************************************************************************)
(* SpecOverlap: the Ethereum driver (run directly, or by index.js in       *)
(* ethereum mode) without --full-sync: the initial pass, then live mode    *)
(* with timer callbacks that may run while the pass of the callback before *)
(* is in flight.  Every request and every store write succeeds.            *)
(***************************************************************************)
InitOverlap ==
  /\ InitStore /\ BatchOff /\ RangesOff /\ MainLocalsInit /\ PageOff /\ NormOff
  /\ mainPc = "ethCall"
  /\ \/ entryPoint = "ethereum" /\ args = <<>>
     \/ entryPoint = "index" /\ args = <<"ethereum">>
  /\ InitEth({0})
  /\ TronOff

NextOverlap ==
  \/ MainEthCall
  \/ MainEthStep
  \/ MainEthReturned
  \/ MainTronCall
  \/ MainAfterSync
  \/ TimerMine
  \/ TimerStart
  \/ TimerStartOverlapping
  \/ TimerPassStep
  \/ TimerPassStepOverlapping

SpecOverlap == InitOverlap /\ [][NextOverlap]_vars

(***************************************************************************)
(* SpecResyncCrash: the Ethereum driver started with --full-sync on the    *)
(* database an earlier run left; a request or a store write of the flagged *)
(* pass may reject, which ends the process, and the driver is then started *)
(* again without the flag.                                                 *)
(***************************************************************************)
InitResyncCrash ==
  /\ now = 1 /\ written = {} /\ aborts = 0 /\ mined = 0
  /\ BatchOff /\ RangesOff /\ MainLocalsInit /\ PageOff /\ NormOff
  /\ mainPc = "ethCall"
  /\ entryPoint = "ethereum"
  /\ args \in {<<"--full-sync">>, <<"--once", "--full-sync">>}
  /\ EthSeeded /\ TronOff
  /\ \/ blacklist = <<>> /\ sync_status = <<>>
     \/ /\ blacklist = UpsertRow(<<>>, processLog(SeedLog, "USDT"), 0)
        /\ sync_status = updateSyncStatus(<<>>, "ETHEREUM", "USDT", SeedBlock + 1)

NextResyncCrash ==
  \/ MainEthCall
  \/ MainEthStep
  \/ MainEthThrow
  \/ MainCatch
  \/ MainEthReturned
  \/ MainTronCall
  \/ MainAfterSync
  \/ EntryMine
  \/ RestartWithoutFlag

SpecResyncCrash == InitResyncCrash /\ [][NextResyncCrash]_vars

(***************************************************************************)
(* SpecTokens: one syncAll of the Ethereum driver, its USDT pass and its   *)
(* USDC pass side by side, on the database of an earlier run whose cursors *)
(* are past both deployment blocks; the provider may reject a request of   *)
(* either pass as too large.                                               *)
(***************************************************************************)
InitTokens ==
  /\ blacklist = <<>>
  /\ sync_status = updateSyncStatus(updateSyncStatus(<<>>, "ETHEREUM", "USDT", TokensCursor),
                                    "ETHEREUM", "USDC", TokensCursor)
  /\ now = 0 /\ written = {} /\ aborts = 0 /\ mined = 0
  /\ TronOff /\ BatchOff /\ RangesOff /\ MainOff /\ PageOff /\ NormOff
  /\ configChunk = DefaultChunkSize
  /\ chunkSize = DefaultChunkSize
  /\ ethHead = TokensCursor + 12000
  /\ rpcLimit = 0
  /\ pc = "idle"
  /\ EthLocalsInit

\* the chain grows before syncAll is called
TokensMine ==
  /\ pc = "idle" /\ pcB = "idle"
  /\ Mine

\* lines 168-171: Promise.all([this.syncUSDT(...), this.syncUSDC(...)])
TokensStartUsdt ==
  /\ pc = "idle"
  /\ StartPass

TokensStartUsdc ==
  /\ pcB = "idle"
  /\ StartPassB("USDC", forceFullSync)

NextTokens ==
  \/ TokensMine
  \/ TokensStartUsdt
  \/ ReadHead
  \/ FetchOk
  \/ FetchSizeLimit
  \/ UpsertStep
  \/ CursorWrite
  \/ TokensStartUsdc
  \/ ReadHeadB
  \/ FetchOkB
  \/ FetchSizeLimitB
  \/ UpsertStepB
  \/ CursorWriteB

SpecTokens == InitTokens /\ [][NextTokens]_vars

(***************************************************************************)
(* SpecBigint: safeToNumber, safeMin and safeMax alone, on arguments drawn *)
(* at the start: bigints, numbers and strings, small ones and those around *)
(* Number.MAX_SAFE_INTEGER and its negative.                               *)
(***************************************************************************)
\* Number.prototype.toString of a non-negative integer
RECURSIVE DigitsOf(_)
DigitsOf(n) ==
  LET last == CHOOSE c \in {"0", "1", "2", "3", "4", "5", "6", "7", "8", "9"} :
                DigitValue(c) = n % 10
  IN IF n < 10 THEN <<last>> ELSE DigitsOf(n \div 10) \o <<last>>

SmallIntegers == {0 - 50, 0, 100, 123, 200, USDT_DEPLOYMENT_BLOCK}

\* the integers from MAX_SAFE_INTEGER - 1 to MAX_SAFE_INTEGER + 4
EdgeIntegers == {MAX_SAFE_INTEGER + d : d \in (0 - 1)..4}

ConvBigInts ==
  {BigIntOf(n) : n \in SmallIntegers \cup EdgeIntegers \cup {0 - n : n \in EdgeIntegers}}

\* numbers: integers that are doubles
ConvNumbers ==
  {NumberOf(n) : n \in {m \in SmallIntegers \cup EdgeIntegers
                               \cup {0 - k : k \in EdgeIntegers} : ToNumber(m) = m}}

ConvStrings ==
  {StringOf(DigitsOf(n)) : n \in {0, 456, MAX_SAFE_INTEGER, MAX_SAFE_INTEGER + 2}}
    \cup {StringOf(s) : s \in {<<"i", "n", "v", "a", "l", "i", "d">>, <<>>,
                               <<"1", "2", "a", "b">>, <<" ", "4", "2">>,
                               <<"-", "5">>, <<"1", ".", "5">>, <<"0", "0", "7">>}}

InitBigint ==
  /\ InitStore /\ EthOff /\ TronOff /\ RangesOff /\ MainOff /\ PageOff /\ NormOff
  /\ lastBatch = <<>> /\ onceStore = <<>> /\ reapplied = FALSE
  /\ convArg \in ConvBigInts \cup ConvNumbers \cup ConvStrings
  /\ convArg2 \in ConvBigInts \cup ConvNumbers
  /\ convOut = NotConverted

\* safeToNumber(convArg)
ApplySafeToNumber ==
  /\ convOut.op = "none"
  /\ convOut' = IF safeToNumberThrows(convArg)
                  THEN [op |-> "safeToNumber", threw |-> TRUE, value |-> 0]
                  ELSE [op |-> "safeToNumber", threw |-> FALSE,
                        value |-> safeToNumber(convArg)]
  /\ UNCHANGED <<storeVars, ethVars, passVars, liveVars, histVars,
                 tronVars, batchVars, rangeVars, mainVars, pageVars,
                 normVars, resyncVars, pollVars, otherVars, convArg,
                 convArg2>>

\* safeMin(convArg, convArg2): throws when a conversion does
ApplySafeMin ==
  /\ convOut.op = "none"
  /\ convArg.type # "string"
  /\ convOut' = IF safeToNumberThrows(convArg) \/ safeToNumberThrows(convArg2)
                  THEN [op |-> "safeMin", threw |-> TRUE, value |-> 0]
                  ELSE [op |-> "safeMin", threw |-> FALSE,
                        value |-> safeMin(convArg, convArg2)]
  /\ UNCHANGED <<storeVars, ethVars, passVars, liveVars, histVars,
                 tronVars, batchVars, rangeVars, mainVars, pageVars,
                 normVars, resyncVars, pollVars, otherVars, convArg,
                 convArg2>>

\* safeMax(convArg, convArg2)
ApplySafeMax ==
  /\ convOut.op = "none"
  /\ convArg.type # "string"
  /\ convOut' = IF safeToNumberThrows(convArg) \/ safeToNumberThrows(convArg2)
                  THEN [op |-> "safeMax", threw |-> TRUE, value |-> 0]
                  ELSE [op |-> "safeMax", threw |-> FALSE,
                        value |-> safeMax(convArg, convArg2)]
  /\ UNCHANGED <<storeVars, ethVars, passVars, liveVars, histVars,
                 tronVars, batchVars, rangeVars, mainVars, pageVars,
                 normVars, resyncVars, pollVars, otherVars, convArg,
                 convArg2>>

NextBigint ==
  \/ ApplySafeToNumber
  \/ ApplySafeMin
  \/ ApplySafeMax

SpecBigint == InitBigint /\ [][NextBigint]_vars
(***************************************************************************)
(* Properties.  The reference below is written without the operators of    *)
(* the store: a record without its ingestion times, and the replay of      *)
(* chain logs in ascending block order.                                    *)
(***************************************************************************)
EthCursor == getLastSyncedBlock("ETHEREUM", "USDT")
TronCursor == getLastSyncedBlock("TRON", "USDT")

LogBlock(l) == l.blockNumber.value
LogKey(l) == <<toLowerCase(Prefix0x(l.data.tail)), "USDT", "ETHEREUM">>
LogAdds(l) == l.topics[1] = EVENTS.ADDED_BLACKLIST

LogsOfKey(k, lo, hi) ==
  SelectSeq(ethLogs, LAMBDA l : LogKey(l) = k /\ lo <= LogBlock(l) /\ LogBlock(l) <= hi)

KeysIn(lo, hi) ==
  {LogKey(ethLogs[i]) : i \in {j \in 1..Len(ethLogs) :
                                 lo <= LogBlock(ethLogs[j]) /\ LogBlock(ethLogs[j]) <= hi}}

\* a table without first_seen and last_updated
Records(tbl) ==
  [k \in DOMAIN tbl |-> [is_blacklisted |-> tbl[k].is_blacklisted,
                         block_number |-> tbl[k].block_number,
                         transaction_hash |-> tbl[k].transaction_hash,
                         timestamp |-> tbl[k].timestamp]]

RecordOfLog(l) == [is_blacklisted |-> IF LogAdds(l) THEN 1 ELSE 0,
                   block_number |-> LogBlock(l),
                   transaction_hash |-> l.transactionHash,
                   timestamp |-> 12 * LogBlock(l)]

\* the records after the logs of blocks lo..hi are applied, in ascending
\* block order, on top of the records recs
Replay(recs, lo, hi) ==
  LET ks == KeysIn(lo, hi)
  IN [k \in (DOMAIN recs) \cup ks |->
        IF k \in ks
          THEN LET ls == LogsOfKey(k, lo, hi) IN RecordOfLog(ls[Len(ls)])
          ELSE recs[k]]

\* some key has an add and, in a later block of lo..hi, a remove
AddThenRemove(lo, hi) ==
  \E k \in KeysIn(lo, hi) :
    LET ls == LogsOfKey(k, lo, hi)
    IN Len(ls) >= 2 /\ LogAdds(ls[1]) /\ ~LogAdds(ls[Len(ls)])

\* C1: after an error-free backfill pass that began with cursor C and read
\* head H, C < H, every key with a log in blocks C+1..H carries the
\* direction and the block number of its highest-block log of that range,
\* and the cursor is H.
C1_BackfillPass ==
  (pc = "done" /\ passCursor0 < latestBlock) =>
    /\ EthCursor = latestBlock
    /\ \A k \in KeysIn(passCursor0 + 1, latestBlock) :
         LET ls == LogsOfKey(k, passCursor0 + 1, latestBlock)
             last == ls[Len(ls)]
         IN /\ k \in DOMAIN blacklist
            /\ blacklist[k].is_blacklisted = (IF LogAdds(last) THEN 1 ELSE 0)
            /\ blacklist[k].block_number = LogBlock(last)

\* a pass of several windows is done and one address was added and later
\* removed within its range
C1_Witness ==
  /\ pc = "done" /\ passCursor0 < latestBlock
  /\ Len(windows) >= 2
  /\ AddThenRemove(passCursor0 + 1, latestBlock)

\* C2: last-block-wins.  No write changes the stored is_blacklisted or
\* block_number of a key unless its block number is higher than the stored
\* one; the stored block number of a key never decreases.
C2_LastBlockWins ==
  [][\A k \in DOMAIN blacklist :
       (\/ blacklist'[k].is_blacklisted # blacklist[k].is_blacklisted
        \/ blacklist'[k].block_number # blacklist[k].block_number)
         => blacklist'[k].block_number > blacklist[k].block_number]_vars

\* C3: once the live handlers are idle and a backfill pass has completed at
\* the current head with no live write since it began, the records are those
\* of the chain's logs applied in ascending block order.
C3_Convergence ==
  (pc = "done" /\ liveOn /\ liveInFlight = {} /\ ~liveSinceStart
     /\ latestBlock = ethHead)
    => Records(blacklist) = Replay(<<>>, 0, ethHead)

\* the table without last_updated
Canon(tbl) ==
  [k \in DOMAIN tbl |-> [is_blacklisted |-> tbl[k].is_blacklisted,
                         block_number |-> tbl[k].block_number,
                         transaction_hash |-> tbl[k].transaction_hash,
                         timestamp |-> tbl[k].timestamp,
                         first_seen |-> tbl[k].first_seen]]

\* C4: idempotence.  A batch given to batchUpsertBlacklistEntries a second
\* time (and any number of times more) leaves the same keys and, per key,
\* the same is_blacklisted, block_number, transaction_hash, timestamp and
\* first_seen as giving it once.
C4_Idempotent == reapplied => Canon(blacklist) = Canon(onceStore)

\* a batch that adds and removes an address the table already held was
\* applied again at a later time
C4_Witness ==
  /\ reapplied
  /\ Len(lastBatch) >= 2
  /\ KeyOf(lastBatch[1]) = KeyOf(lastBatch[2])
  /\ lastBatch[1].is_blacklisted # lastBatch[2].is_blacklisted
  /\ \E k \in DOMAIN blacklist :
       /\ blacklist[k].first_seen < onceStore[k].last_updated
       /\ onceStore[k].last_updated < blacklist[k].last_updated

\* C5: resumability.  A run whose attempts were ended by crashes or thrown
\* errors and that was started again until a pass completed ends with the
\* records and the cursor of a run from the same store and cursor that was
\* never interrupted: the logs from the cursor's successor (not below the
\* deployment block) to the head, applied in ascending order, and cursor =
\* head.
C5_Resumable ==
  (pc = "done" /\ interrupted) =>
    /\ Records(blacklist)
         = Replay(Records(runStore0), Max(runCursor0 + 1, USDT_DEPLOYMENT_BLOCK),
                  latestBlock)
    /\ EthCursor = latestBlock

\* an attempt stopped after it had committed a window; the next attempt
\* resumed past that window and applied logs of the blocks that were left,
\* and an address was added and later removed within the run
C5_Witness ==
  /\ pc = "done" /\ interrupted
  /\ passCursor0 > runCursor0
  /\ KeysIn(passCursor0 + 1, latestBlock) # {}
  /\ AddThenRemove(runCursor0 + 1, latestBlock)

\* C6: when the provider rejects every request for the current window as
\* too large, the pass still comes to an end: whenever a window is about to
\* be requested, the pass later completes or fails.
C6_ShrinkTerminates == (pc = "fetch") ~> (pc \in {"done", "failed"})

\* C7: after a size-limit error is handled the chunk size is
\* max(floor(previous / 2), 100), and no fetch after a size-limit error uses
\* a chunk size below 100.
C7_ShrinkFloor ==
  /\ lastShrink # <<>> => lastShrink[2] = Max(lastShrink[1] \div 2, 100)
  /\ sizeErrors > 0 => chunkSize >= 100

\* a fetch succeeded after a size-limit error at which the halved size was
\* below the floor
C7_Witness ==
  /\ lastShrink # <<>>
  /\ lastShrink[1] \div 2 < 100
  /\ pc \in {"upsert", "cursor"}

WindowsFrom == Max(passCursor0 + 1, USDT_DEPLOYMENT_BLOCK)

\* C8: the windows of the successful fetches of a pass are non-empty,
\* ascending and adjacent, the first begins at max(cursor + 1,
\* deploymentBlock) and, when the pass completes, the last ends at the
\* head; whenever a fetch is about to be issued, also after a size-limit
\* error, the window starts right after the last fetched window and the
\* cursor is the end of the last fetched window.
C8_WindowCoverage ==
  /\ \A i \in 1..Len(windows) : windows[i][1] <= windows[i][2]
  /\ \A i \in 1..(Len(windows) - 1) : windows[i + 1][1] = windows[i][2] + 1
  /\ windows # <<>> => windows[1][1] = WindowsFrom
  /\ pc = "done" =>
       IF windows = <<>> THEN WindowsFrom > latestBlock
                         ELSE windows[Len(windows)][2] = latestBlock
  /\ pc = "fetch" =>
       IF windows = <<>>
         THEN currentBlock = WindowsFrom /\ EthCursor = passCursor0
         ELSE /\ currentBlock = windows[Len(windows)][2] + 1
              /\ EthCursor = windows[Len(windows)][2]

\* a pass completed whose chunk size was halved on the way: a window of the
\* configured size is followed by a window of the smaller size
C8_Witness ==
  /\ pc = "done"
  /\ chunkSize < configChunk
  /\ \E i, j \in 1..Len(windows) :
       /\ i < j
       /\ windows[i][2] - windows[i][1] + 1 = configChunk
       /\ windows[j][2] - windows[j][1] + 1 = chunkSize

\* C9: for a range longer than one month the ranges getContractEvents
\* fetches are ascending, do not overlap, leave no gap and cover every
\* timestamp from minBlockTimestamp to maxBlockTimestamp.
C9_MonthlyCoverage ==
  (rangeResult # <<>> /\ rangeMax - rangeMin > oneMonthMs) =>
    /\ \A i \in 1..Len(rangeResult) : rangeResult[i][1] <= rangeResult[i][2]
    /\ \A i \in 1..(Len(rangeResult) - 1) :
         rangeResult[i + 1][1] = rangeResult[i][2] + 1
    /\ \A t \in rangeMin..rangeMax :
         \E i \in 1..Len(rangeResult) :
           rangeResult[i][1] <= t /\ t <= rangeResult[i][2]

\* C10: on either chain the cursor stands at a position only when every
\* event of the contract up to that position has been written to the
\* store, and after a pass has thrown the cursor has the value it had
\* before the failed window: the next pass starts at that window.
C10_CursorAfterApply ==
  /\ \A i \in 1..Len(ethLogs) :
       LogBlock(ethLogs[i]) <= EthCursor => ethLogs[i].transactionHash \in written
  /\ \A i \in 1..Len(tronEvents) :
       tronEvents[i].block_number.value <= TronCursor
         => tronEvents[i].transaction_id \in written
  /\ pc = "failed" => ResumeFrom(EthCursor) = failedFrom
  /\ tronPc = "failed" => TronCursor = tronLastSyncedBlock

\* C11: on every driver the cursor for a window's end is persisted before
\* the next window is fetched: whenever a fetch is about to be issued after
\* a fetched window, the cursor stands at the end of that window (on the
\* timestamp-indexed chain: at a block whose timestamp is not before the end
\* of that window).
C11_PerWindowProgress ==
  /\ (pc = "fetch" /\ windows # <<>>) => EthCursor = windows[Len(windows)][2]
  /\ (tronPc = "fetch" /\ tronWindows # <<>>
        /\ Len(tronWindows) < Len(RangesOf(fromTimestamp, currentTimestamp)))
       => TronBlockTimestamp(TronCursor) >= tronWindows[Len(tronWindows)][2]

\* C12: a log that processLog rejects fails its whole window: the pass never
\* goes on to write a window that holds such a log, the cursor never reaches
\* the block of such a log, and when the pass has stopped on it no event of
\* that window has been written and the next pass resumes at that window.
Malformed(l) == processLogThrows(l, "USDT")

C12_FailTheBatch ==
  /\ \A i \in 1..Len(ethLogs) : Malformed(ethLogs[i]) => EthCursor < LogBlock(ethLogs[i])
  /\ pc \in {"upsert", "cursor"} =>
       \A i \in 1..Len(ethLogs) :
         Malformed(ethLogs[i]) =>
           ~(currentBlock <= LogBlock(ethLogs[i]) /\ LogBlock(ethLogs[i]) <= toBlock)
  /\ (pc = "failed" /\ failedTo > 0) =>
       /\ ResumeFrom(EthCursor) = failedFrom
       /\ \A i \in 1..Len(ethLogs) :
            (failedFrom <= LogBlock(ethLogs[i]) /\ LogBlock(ethLogs[i]) <= failedTo)
              => ethLogs[i].transactionHash \notin written

\* a pass has stopped on a window that holds a well-formed log and a
\* rejected one
C12_Witness ==
  /\ pc = "failed"
  /\ failedTo > 0
  /\ \E i, j \in 1..Len(ethLogs) :
       /\ ~Malformed(ethLogs[i]) /\ Malformed(ethLogs[j])
       /\ failedFrom <= LogBlock(ethLogs[i]) /\ LogBlock(ethLogs[i]) <= failedTo
       /\ failedFrom <= LogBlock(ethLogs[j]) /\ LogBlock(ethLogs[j]) <= failedTo

\* C13: a fetch that fails with an error that is no size-limit error ends
\* the pass in that very step (the window is not fetched again in the pass),
\* with the chunk size, the records and the cursor as they were; the fetch
\* of the indexer ends its pass in the same way.
C13_NoInlineRetry ==
  [][(aborts' > aborts) =>
       /\ blacklist' = blacklist /\ sync_status' = sync_status
       /\ chunkSize' = chunkSize
       /\ (pc = "fetch") => (pc' = "failed")
       /\ (tronPc = "fetch") => (tronPc' = "failed")]_vars

\* a pass whose chunk size had been halved has stopped on a fetch error
C13_Witness ==
  /\ pc = "failed"
  /\ aborts > 0
  /\ failedFrom > 0
  /\ chunkSize < configChunk

\* C14: in a run of main with both chains selected, an error of one chain's
\* pass does not keep the other chain's pass from running: once the initial
\* sync is over and no scheduled run is under way, the TRON sync has been
\* called once for the initial sync and once for every scheduled run, also
\* when an Ethereum pass threw.
C14_ChainIsolation ==
  (/\ entryPoint = "index" /\ SelectsEthereum /\ SelectsTron
   /\ mainPc \in {"started", "exited"} /\ cronPc = "idle")
    => tronPasses = cronRuns + 1

\* C15: with --once anywhere on the command line the process starts no live
\* listener and no scheduled run, runs no chain twice, and has run exactly
\* one pass of each selected chain when it exits normally; the selected
\* chains are those of the mode named on the command line, all without one.
Modes == {"ethereum", "tron", "all"}

ModeNamed(a) ==
  IF \E i \in 1..Len(a) : a[i] \in Modes
    THEN a[CHOOSE i \in 1..Len(a) : a[i] \in Modes /\ \A j \in 1..(i - 1) : a[j] \notin Modes]
    ELSE "all"

PassesWanted(chain) ==
  IF entryPoint = "index"
    THEN IF ModeNamed(args) \in {chain, "all"} THEN 1 ELSE 0
    ELSE IF entryPoint = chain THEN 1 ELSE 0

C15_RunOnce ==
  runOnce(args) =>
    /\ ~liveOn /\ ~tronLiveOn /\ cronRuns = 0
    /\ ethPasses <= 1 /\ tronPasses <= 1
    /\ (mainPc = "exited" /\ exitCode = 0) =>
         /\ ethPasses = PassesWanted("ethereum")
         /\ tronPasses = PassesWanted("tron")

\* C16: on every entry point a chain's live listener is on only after the
\* initial sync of the process has returned (main is past its awaits, and a
\* pass of that chain was run), and a process whose initial sync threw
\* never has a live listener.
C16_BackfillBeforeLive ==
  /\ liveOn => (mainPc \in {"started", "exited"} /\ ethPasses >= 1)
  /\ tronLiveOn => (mainPc \in {"started", "exited"} /\ tronPasses >= 1)
  /\ (mainPc = "ethWait" /\ pc # "done") => ~liveOn
  /\ (mainPc = "tronWait" /\ tronPc # "done") => ~tronLiveOn
  /\ (mainPc = "exited" /\ exitCode = 1 /\ cronRuns = 0) => (~liveOn /\ ~tronLiveOn)

\* live mode has been entered on both chains after their initial passes
C16_Witness ==
  /\ liveOn /\ tronLiveOn
  /\ mainPc = "started"
  /\ EthCursor > 0 /\ TronCursor > 0

\* C17: a process ended by SIGINT or SIGTERM leaves no window half applied:
\* no pass stands between the fetch of a window and the write of its cursor.
C17_GracefulShutdown ==
  signalled => (pc \notin {"upsert", "cursor"} /\ tronPc \notin {"upsert", "cursor"})

\* C18: whatever the order in which the provider returned the raw events of
\* a window, the batch that is applied to the store is in ascending
\* block_number order, on both chains, and the windows of a pass are applied
\* in ascending range order.
Ascending(batch) ==
  \A i, j \in 1..Len(batch) : i < j => batch[i].block_number <= batch[j].block_number

C18_InWindowOrder ==
  /\ pc = "upsert" => Ascending(entries)
  /\ tronPc = "upsert" => Ascending(tronEntries)
  /\ \A i \in 1..(Len(windows) - 1) : windows[i][2] < windows[i + 1][1]

\* C19: fetchEventsForRange goes on asking for pages until a page is empty
\* or shorter than the page size it asked for (or comes without a token),
\* and when the indexer sent a token with every page that had more events
\* behind it, the result holds every event the indexer holds for the window.
C19_CompletePagination ==
  pagePc = "done" =>
    /\ (pageLast[1] < PageLimit \/ pageLast[2] = 0)
    /\ ~tokenWithheld => Len(pageEvents) = pageHeld

\* C20: the page loop is over after an empty page, after a page shorter than
\* the page size asked for and after a full page without a token, and no
\* request is issued twice with the same fingerprint.
C20_StallGuard ==
  /\ \A i, j \in 1..Len(requests) : requests[i] = requests[j] => i = j
  /\ (pageLast # <<>> /\ (pageLast[1] < PageLimit \/ pageLast[2] = 0)) => pagePc = "done"

\* the indexer has sent a full page without a token although it holds more
C20_Witness ==
  /\ pagePc = "done"
  /\ pageLast = <<PageLimit, 0>>
  /\ tokenWithheld

\* C21: the record of a USDT log and the record of a USDC log of the same
\* address word are stored under "0x" and the last 40 hex digits of the
\* word, in lower case, each as the only record of its token, and a log with
\* the add signature is stored as blacklisted.
Last40(word) == SubSeq(word, Len(word) - 39, Len(word))

IsLower(a) == \A i \in 1..Len(a) : a[i] \notin {"A", "B", "C", "D", "E", "F", "X"}

C21_AddressNormalization ==
  \A token \in normDone :
    LET k == <<toLowerCase(<<"0", "x">> \o Last40(normWord)), token, "ETHEREUM">>
    IN /\ k \in DOMAIN blacklist
       /\ IsLower(k[1]) /\ Len(k[1]) = 42
       /\ \A x \in DOMAIN blacklist : x[2] = token => x = k
       /\ blacklist[k].is_blacklisted = (IF normKind = "add" THEN 1 ELSE 0)

\* both logs of an address with upper-case digits have been handled
C21_Witness ==
  /\ normDone = {"USDT", "USDC"}
  /\ normKind = "add"
  /\ ~IsLower(normWord)
  /\ Cardinality(DOMAIN blacklist) = 2

\* C22: the direction of a record follows the signature of its event in the
\* table of its token: the remove signature of the token gives
\* is_blacklisted 0, its add signature gives 1, and an event with a
\* signature that is neither gives no record with is_blacklisted 1.
KindOf(network, token, sig) ==
  IF network = "ETHEREUM"
    THEN CASE sig = SigOf(token, "add") -> "add"
           [] sig = SigOf(token, "remove") -> "remove"
           [] OTHER -> "none"
    ELSE CASE sig = TronEventNames[1] -> "add"
           [] sig = TronEventNames[2] -> "remove"
           [] OTHER -> "none"

C22_DirectionResolution ==
  \A seen \in normSeen :
    \A k \in DOMAIN blacklist :
      (k[3] = seen[1] /\ k[2] = seen[2]) =>
        CASE KindOf(seen[1], seen[2], seen[3]) = "add" -> blacklist[k].is_blacklisted = 1
          [] KindOf(seen[1], seen[2], seen[3]) = "remove" -> blacklist[k].is_blacklisted = 0
          [] OTHER -> blacklist[k].is_blacklisted # 1

\* C23: a write leaves first_seen of every record that existed as it was,
\* gives a record it creates the time of the write as first_seen, and gives
\* every record it writes the time of the write as last_updated; a batch,
\* given the first time or again, does so for the key of each of its
\* entries.
C23_FirstSeenLastUpdated ==
  [][/\ \A k \in DOMAIN blacklist :
          /\ k \in DOMAIN blacklist'
          /\ blacklist'[k].first_seen = blacklist[k].first_seen
          /\ blacklist'[k] # blacklist[k] => blacklist'[k].last_updated = now
     /\ \A k \in (DOMAIN blacklist') \ (DOMAIN blacklist) :
          blacklist'[k].first_seen = now /\ blacklist'[k].last_updated = now
     /\ ((lastBatch = <<>> /\ lastBatch' # <<>>) \/ (~reapplied /\ reapplied')) =>
          \A i \in 1..Len(lastBatch') :
            blacklist'[KeyOf(lastBatch'[i])].last_updated = now]_vars

\* a record created by a single write has been written again, later, by a
\* batch given twice
C23_Witness ==
  /\ reapplied
  /\ \E i \in 1..Len(lastBatch) :
       /\ KeyOf(lastBatch[i]) \in DOMAIN blacklist
       /\ blacklist[KeyOf(lastBatch[i])].first_seen = 0
       /\ blacklist[KeyOf(lastBatch[i])].last_updated = MaxClock

\* C24: a step deletes a record only as the clearing of a pass that was
\* called with the full-resync flag (every other step of a pass, a live
\* handler or a scheduled pass leaves every stored key in place), and a pass
\* the schedule started never carries the flag.
C24_RecordLifecycle ==
  /\ [][(DOMAIN blacklist \subseteq DOMAIN blacklist')
          \/ (forceFullSync /\ pc = "idle" /\ pc' = "head")
          \/ (tronForceFullSync /\ tronPc = "fetch" /\ tronPc' = "upsert")]_vars
  /\ []((cronPc = "ethWait" => ~forceFullSync)
          /\ (cronPc = "tronWait" => ~tronForceFullSync))

\* a driver started with --full-sync has made its initial pass and a
\* scheduled pass, and the store holds records
C24_Witness ==
  /\ InitialFlag
  /\ cronRuns = 1 /\ cronPc = "idle"
  /\ ethPasses + tronPasses = 2
  /\ pc \in {"idle", "off"} /\ tronPc \in {"idle", "off"}
  /\ DOMAIN blacklist # {}

\* C25: when a pass called with the full-resync flag has completed, on
\* either chain, no record of the pair that was stored before the pass is
\* left as it was (each was cleared, and is there again only as the pass
\* wrote it), and the pass has processed the chain from the deployment
\* origin: its first window begins at the deployment block and every event
\* the contract emitted up to the head it read has its record.
PairRows(network, token) ==
  {k \in DOMAIN blacklist : k[3] = network /\ k[2] = token}

C25_FullResync ==
  /\ (pc = "done" /\ forceFullSync) =>
       /\ \A k \in PairRows("ETHEREUM", tokenSymbol) : blacklist[k].first_seen >= 1
       /\ windows # <<>> /\ windows[1][1] = startBlock
       /\ \A i \in 1..Len(ethLogs) :
            ethLogs[i].blockNumber.value <= latestBlock =>
              KeyOf(processLog(ethLogs[i], tokenSymbol)) \in DOMAIN blacklist
  /\ (tronPc = "done" /\ tronForceFullSync) =>
       /\ \A k \in PairRows("TRON", "USDT") : blacklist[k].first_seen >= 1
       /\ \A i \in 1..Len(tronEvents) :
            tronEvents[i].block_number.value <= currentBlockNumber =>
              KeyOf(processEvent(tronEvents[i], "USDT")) \in DOMAIN blacklist

\* C26: every stored address is in lower case; of the records whose address
\* differs from that of a written entry in letter case at most, exactly one
\* has the entry's token and network, so an entry written in another casing
\* went to the record there was; and getBlacklistStatus answers with the
\* same rows for every casing of an address, with and without the token
\* and network filters.
UpperChar(c) == CASE c = "a" -> "A" [] c = "b" -> "B" [] c = "c" -> "C"
                  [] c = "d" -> "D" [] c = "e" -> "E" [] c = "f" -> "F"
                  [] c = "x" -> "X" [] OTHER -> c

Casings(a) ==
  {[i \in 1..Len(a) |-> IF i \in S THEN UpperChar(a[i]) ELSE a[i]] :
     S \in SUBSET (1..Len(a))}

SameRecordKeys(entry) ==
  {k \in DOMAIN blacklist : /\ toLowerCase(k[1]) = toLowerCase(entry.address)
                            /\ k[2] = entry.token
                            /\ k[3] = entry.network}

C26_CanonicalKey ==
  /\ \A k \in DOMAIN blacklist : IsLower(k[1])
  /\ \A i \in 1..Len(lastBatch) : Cardinality(SameRecordKeys(lastBatch[i])) = 1
  /\ \A k \in DOMAIN blacklist : \A a \in Casings(k[1]) :
       \A token \in {"null", "USDT"}, network \in {"null", "ETHEREUM"} :
         getBlacklistStatus(blacklist, a, token, network)
           = getBlacklistStatus(blacklist, k[1], token, network)

\* the record a single write of 0xAB created has been written again by a
\* batch that holds 0xab, given once
C26_Witness ==
  /\ lastBatch # <<>> /\ ~reapplied
  /\ \E i \in 1..Len(lastBatch) :
       /\ lastBatch[i].address = <<"0", "x", "a", "b">>
       /\ Cardinality(SameRecordKeys(lastBatch[i])) = 1
       /\ \A k \in SameRecordKeys(lastBatch[i]) :
            /\ blacklist[k].first_seen < blacklist[k].last_updated
            /\ <<k, blacklist[k]>> \in
                 getBlacklistStatus(blacklist, <<"0", "X", "A", "b">>, "USDT", "null")

\* C27: the table a query reads while a window's batch is being written
\* holds the events of that batch all or none, and after a store write of a
\* window's batch has failed the table holds none of the events of the
\* window that failed or of a later block.
HashesOf(batch) == {batch[i].transaction_hash : i \in 1..Len(batch)}

C27_CommittedWindowsOnly ==
  /\ pc = "upsert" =>
       \/ HashesOf(entries) \cap written = {}
       \/ HashesOf(entries) \subseteq written
  /\ pc = "failed" =>
       \A i \in 1..Len(ethLogs) :
         ethLogs[i].blockNumber.value >= failedFrom =>
           ethLogs[i].transactionHash \notin written

\* C28: a step of a pass or of a live handler of the pair (N, T) leaves the
\* cursor row of every other pair and every record of another pair as they
\* were, and creates no record of another pair: only the cursor row (N, T)
\* and records whose network is N and token is T change.
ActivePair == IF pc # "off" THEN <<"ETHEREUM", "USDT">> ELSE <<"TRON", "USDT">>

OfPair(k, pair) == k[3] = pair[1] /\ k[2] = pair[2]

C28_PerPairScoping ==
  [][/\ \A k \in DOMAIN blacklist :
          ~OfPair(k, ActivePair) =>
            k \in DOMAIN blacklist' /\ blacklist'[k] = blacklist[k]
     /\ \A k \in (DOMAIN blacklist') \ (DOMAIN blacklist) : OfPair(k, ActivePair)
     /\ \A p \in DOMAIN sync_status :
          p # ActivePair => p \in DOMAIN sync_status' /\ sync_status'[p] = sync_status[p]
     /\ \A p \in (DOMAIN sync_status') \ (DOMAIN sync_status) : p = ActivePair]_vars

\* a pass of the pair has written a record and its cursor row next to the
\* records and cursor rows of the three other pairs
C28_Witness ==
  /\ ActivePair \in DOMAIN sync_status
  /\ \E k \in DOMAIN blacklist : OfPair(k, ActivePair)
  /\ \A p \in Pairs \ {ActivePair} :
       /\ p \in DOMAIN sync_status
       /\ \E k \in DOMAIN blacklist : OfPair(k, p)
  /\ pc = "done" \/ tronPc = "done"

\* C29: for every raw event that both paths have handled, the table the
\* live path wrote and the table the backfill path wrote hold its record
\* under the same key with the same is_blacklisted, block_number,
\* transaction_hash and timestamp; only first_seen and last_updated, the
\* times of ingestion, may differ.
Ingested(row) == [is_blacklisted |-> row.is_blacklisted,
                  block_number |-> row.block_number,
                  transaction_hash |-> row.transaction_hash,
                  timestamp |-> row.timestamp]

KeysOfSource(tbl, source) ==
  {k \in DOMAIN tbl : IF source = "TRON" THEN k[3] = "TRON"
                                          ELSE k[3] = "ETHEREUM" /\ k[2] = source}

C29_LiveBackfillEquivalence ==
  \A source \in normDone \cap normSeen :
    /\ KeysOfSource(blacklist, source) = KeysOfSource(onceStore, source)
    /\ Cardinality(KeysOfSource(blacklist, source)) = 1
    /\ \A k \in KeysOfSource(blacklist, source) :
         Ingested(blacklist[k]) = Ingested(onceStore[k])

\* an event has gone through both paths, at different times
C29_Witness ==
  /\ normDone # {} /\ normSeen = normDone
  /\ \E k \in DOMAIN blacklist :
       k \in DOMAIN onceStore /\ blacklist[k].first_seen # onceStore[k].first_seen

\* C30: every live poll that queries asks for the window from the head's
\* timestamp less twice the poll interval to the head's timestamp, a
\* look-back longer than the poll interval; and when the head timestamps of
\* two consecutive polls are at most twice the poll interval apart, the later
\* window begins no later than the timestamp after the end of the earlier
\* one, so that no timestamp between them is left unqueried.
C30_LivePollLookBack ==
  /\ \A i \in 1..Len(pollWindows) :
       /\ pollWindows[i][2] = TronBlockTimestamp(pollWindows[i][3])
       /\ pollWindows[i][1] = pollWindows[i][2] - 2 * pollInterval
       /\ pollWindows[i][2] - pollWindows[i][1] > pollInterval
  /\ \A i \in 1..(Len(pollWindows) - 1) :
       pollWindows[i + 1][2] - pollWindows[i][2] <= 2 * pollInterval =>
         pollWindows[i + 1][1] <= pollWindows[i][2] + 1

\* two consecutive polls whose heads are more than one and at most two poll
\* intervals apart, the later one having written an event mined in between
C30_Witness ==
  \E i \in 1..(Len(pollWindows) - 1) :
    /\ pollWindows[i + 1][2] - pollWindows[i][2] > pollInterval
    /\ pollWindows[i + 1][2] - pollWindows[i][2] <= 2 * pollInterval
    /\ \E k \in DOMAIN blacklist :
         /\ blacklist[k].timestamp > pollWindows[i][2]
         /\ blacklist[k].timestamp <= pollWindows[i + 1][2]


\* C31: once live mode is entered the process does not leave it on its own:
\* with no signal sent, no step takes the process out of "started", ends the
\* Ethereum subscription or ends the TRON poll timer, whether a poll or the
\* handling of a live event failed or not.
C31_TerminalFreeLive ==
  [][/\ mainPc = "started" => mainPc' = "started"
     /\ liveOn => liveOn'
     /\ tronLiveOn => tronLiveOn']_vars

\* C32: in an execution without a full resync, passes of one pair
\* overlapping or not, no step lowers the last_synced_block of any
\* (network, token) row of sync_status.
C32_CursorMonotonicity ==
  [][\A p \in DOMAIN sync_status :
       p \in DOMAIN sync_status' /\ sync_status'[p] >= sync_status[p]]_vars

\* C33: at no time are two backfill passes of one (network, token) in
\* flight: the timer starts no pass for a pair while an earlier pass of the
\* pair has not returned.
C33_SinglePassInFlight ==
  ~(InFlight /\ InFlightB /\ tokenB = tokenSymbol)

\* C34: when a flagged Ethereum pass was stopped by an error and the driver
\* was started again without the flag, the pass of the second start ends
\* with the records of an uninterrupted run from the deployment block (the
\* logs of the chain up to the head, applied in ascending order, on an empty
\* table) and with the cursor at the head, so that no log at or below the
\* cursor is without its record.
C34_InterruptedResyncRecoverable ==
  (pc = "done" /\ ~isFullSync(args)) =>
    /\ Records(blacklist) = Replay(<<>>, USDT_DEPLOYMENT_BLOCK, latestBlock)
    /\ EthCursor = latestBlock
    /\ \A k \in KeysIn(USDT_DEPLOYMENT_BLOCK, EthCursor) : k \in DOMAIN blacklist

\* C35: for every configured chunk size, a size-limit error leaves the chunk
\* size no larger than it was before the error, and the chunk size of an
\* EthereumSync instance is never above the size it was constructed with.
C35_ShrinkNeverGrows ==
  /\ lastShrink # <<>> => lastShrink[2] <= lastShrink[1]
  /\ chunkSize <= configChunk

\* the end of the window that begins at from in a pass from first to latest
\* cut with the chunk size chunk
ExpectedTo(from, first, latest, chunk) ==
  LET batch == (from - first) \div maxBatchSize
      bEnd == Min(first + (batch + 1) * maxBatchSize - 1, latest)
  IN Min(from + chunk - 1, bEnd)

\* C36: while the USDT pass and the USDC pass of one syncAll run side by
\* side, a pass none of whose own requests was rejected as too large
\* fetches every window with the configured chunk size, whatever errors the
\* other token's requests met.
C36_WindowSizePrivate ==
  /\ sizeErrors = 0 =>
       \A i \in 1..Len(windows) :
         windows[i][2] = ExpectedTo(windows[i][1], fromBlock, latestBlock, configChunk)
  /\ (tokenB = "USDC" /\ sizeErrorsB = 0) =>
       \A i \in 1..Len(windowsB) :
         windowsB[i][2] = ExpectedTo(windowsB[i][1], fromBlockB, latestBlockB, configChunk)

\* C37: a TRON pass without the flag that read a cursor above 0 fetches
\* from a timestamp no later than the one after the cursor block's, up to
\* the timestamp of the head it read, whether the lookup of the cursor block
\* answered or failed; a pass that has completed has set the cursor to the
\* number of that head.
C37_NoTimeGapBetweenPasses ==
  /\ (tronPc \in {"fetch", "upsert", "cursor"}
      /\ tronLastSyncedBlock > 0 /\ ~tronForceFullSync) =>
       /\ fromTimestamp <= TronBlockTimestamp(tronLastSyncedBlock) + 1
       /\ currentTimestamp = TronBlockTimestamp(currentBlockNumber)
  /\ tronPc = "done" => TronCursor = currentBlockNumber

\* a string of decimal digits and nothing else
IsDigitString(s) == Len(s) > 0 /\ \A i \in 1..Len(s) : IsDigit(s[i])

\* the integer a string of decimal digits denotes
RECURSIVE Denotes(_)
Denotes(s) == IF Len(s) = 0 THEN 0 ELSE 10 * Denotes(SubSeq(s, 1, Len(s) - 1))
                                         + DigitValue(s[Len(s)])

\* a string that begins, after white space, with an optional sign and a digit
BeginsWithInteger(s) ==
  \E i \in 1..Len(s) :
    /\ IsDigit(s[i])
    /\ \E j \in 0..(i - 1) :
         /\ \A k \in 1..j : s[k] = " "
         /\ i = j + 1 \/ (i = j + 2 /\ s[j + 1] \in {"-", "+"})

\* C38: safeToNumber returns the number equal to its argument for a bigint
\* not above Number.MAX_SAFE_INTEGER, for a number and for a string of
\* decimal digits; it throws for a bigint above Number.MAX_SAFE_INTEGER and
\* for a string that does not begin with an integer; safeMin and safeMax of
\* bigints not above Number.MAX_SAFE_INTEGER and numbers, in any mix, return
\* the smaller and the larger of the two values.
C38_SafeConversions ==
  /\ convOut.op = "safeToNumber" =>
       /\ (convArg.type = "bigint" /\ convArg.value <= MAX_SAFE_INTEGER) =>
            ~convOut.threw /\ convOut.value = convArg.value
       /\ convArg.type = "number" =>
            ~convOut.threw /\ convOut.value = convArg.value
       /\ (convArg.type = "string" /\ IsDigitString(convArg.chars)) =>
            ~convOut.threw /\ convOut.value = Denotes(convArg.chars)
       /\ (convArg.type = "bigint" /\ convArg.value > MAX_SAFE_INTEGER) => convOut.threw
       /\ (convArg.type = "string" /\ ~BeginsWithInteger(convArg.chars)) => convOut.threw
  /\ (/\ convOut.op \in {"safeMin", "safeMax"}
      /\ \A v \in {convArg, convArg2} :
           v.type = "bigint" => v.value <= MAX_SAFE_INTEGER) =>
       /\ ~convOut.threw
       /\ convOut.value = IF (convArg.value < convArg2.value) = (convOut.op = "safeMin")
                            THEN convArg.value ELSE convArg2.value
====
